---- MODULE Spec2Model ----
(***************************************************************************)
(* Identity and trust subsystem of slashclaw: one-time challenges,         *)
(* signature verification, bearer tokens, accounts and account keys,       *)
(* served by concurrent HTTP handlers over one SQLite store.               *)
(*                                                                         *)
(* Every store method is one SQL statement and therefore one atomic step;  *)
(* a handler is a sequence of such steps and handlers of different         *)
(* requests interleave between them.  Time is counted in ticks of          *)
(* 1/TicksPerSecond second; the store keeps expiry times formatted to      *)
(* whole seconds.                                                          *)
(***************************************************************************)
EXTENDS Integers, Sequences, FiniteSets, TLC

VARIABLES
    now,          \* wall clock, in ticks
    challengeTTL, \* Service.challengeTTL, in ticks
    tokenTTL,     \* Service.tokenTTL, in ticks
    challenges,   \* table challenges
    tokens,       \* table tokens
    accounts,     \* table accounts
    account_keys, \* table account_keys
    nChallenges,  \* number of challenges created since the initial state
    faults,       \* store failures the environment may still inject
    limit,        \* challenges and tokens the clients ask for in this run
    reqs,         \* requests being served: handler position, arguments read so far,
                  \* locals, response
    issued,       \* history: tokens returned by VerifyAndCreateToken since the initial
                  \* state, each with the challenge it verified
    adminSecret,  \* Config.AdminSecret
    stories,      \* table stories; token_agent is history: the agent of the token
                  \* that authenticated the submission
    comments,     \* table comments, with the same history field
    votes,        \* table votes
    buckets,      \* MemoryLimiter.buckets
    creqs,        \* content and moderation requests being served
    admitted,     \* history: number of requests that passed the rate-limit check
    quota,        \* what the clients ask for in this run: stories, comments, votes,
                  \* requests past the rate limit, and the addresses they come from
    mu,           \* MemoryLimiter.mu: the goroutine holding the write lock (0: none)
                  \* and those holding the read lock
    lreqs,        \* calls of the limiter's methods being executed
    lcfg,         \* limit and window the callers pass to the limiter in this run
    llog          \* history: key, time and result of every Allow call, in the order
                  \* the calls decided

\* The content side of the program: configuration, tables, limiter and requests.
contentVars == <<adminSecret, stories, comments, votes, buckets, creqs, admitted, quota>>

\* The identity side of the store and its requests.
authVars == <<challengeTTL, tokenTTL, challenges, tokens, accounts, account_keys,
              nChallenges, limit, reqs, issued>>

\* The limiter's lock and the direct calls of its methods.
limiterVars == <<mu, lreqs, lcfg, llog>>

vars == <<now, challengeTTL, tokenTTL, challenges, tokens, accounts, account_keys,
          nChallenges, faults, limit, reqs, issued,
          adminSecret, stories, comments, votes, buckets, creqs, admitted, quota,
          mu, lreqs, lcfg, llog>>

-----------------------------------------------------------------------------
(* Bounds of the model *)

NumProcs == 2
MaxTime == 3
MaxChallenges == 2
MaxTokens == 2
MaxFaults == 1
TicksPerSecond == 2

Procs == 1..NumProcs

-----------------------------------------------------------------------------
(* Values *)

AlgEd25519 == "ed25519"
AlgSecp256k1 == "secp256k1"
AlgRSAPSS == "rsa-pss"
AlgRSASHA256 == "rsa-sha256"

ErrInvalidAlgorithm == "invalid algorithm"
ErrInvalidPublicKey == "invalid public key"
ErrInvalidSignature == "invalid signature"
ErrChallengeExpired == "challenge expired or not found"
ErrChallengeNotFound == "challenge not found"
ErrNotImplemented == "secp256k1 not yet implemented"
ErrStorage == "storage failure"
NoErr == ""

Nil == [nil |-> TRUE]

\* sql.NullTime / *time.Time
NullTime == [valid |-> FALSE, time |-> 0]
TimeOf(t) == [valid |-> TRUE, time |-> t]

Agents == {"a1", "a2"}

\* A public key string: the kind of key its bytes decode to ("none" when they
\* decode to no key at all), its first 16 characters, and the rest.
KeyEd == [kind |-> "ed25519", head |-> "Ed", rest |-> "1"]
KeyRSA == [kind |-> "rsa", head |-> "MIIBIjANBgkqhkiG", rest |-> "1"]
KeyGarbage == [kind |-> "none", head |-> "garbage", rest |-> ""]
PublicKeys == {KeyEd, KeyRSA, KeyGarbage}

\* A signature string: either bytes that do not decode (wf = FALSE), or the
\* signature made with the private key of `key` over `msg` under `alg`.
Sign(alg, key, msg) == [wf |-> TRUE, alg |-> alg, key |-> key, msg |-> msg]
MalformedSignature == [wf |-> FALSE, alg |-> "", key |-> Nil, msg |-> ""]

\* uuid.New().String() and base64(rand.Read(32 bytes)): the n-th random value.
RandomString(prefix, n) == prefix \o ToString(n)

\* time.Time.Format("2006-01-02 15:04:05"): the time cut to whole seconds.
FormatSeconds(t) == (t \div TicksPerSecond) * TicksPerSecond

\* SQLite's datetime('now').
DatetimeNow == FormatSeconds(now)

-----------------------------------------------------------------------------
(* Signature verifier *)

Result(valid, err) == [valid |-> valid, err |-> err]

verifyEd25519(publicKeyStr, message, signatureStr) ==
    IF publicKeyStr.kind # "ed25519" THEN Result(FALSE, ErrInvalidPublicKey)
    ELSE IF ~signatureStr.wf THEN Result(FALSE, ErrInvalidSignature)
    ELSE Result(signatureStr = Sign(AlgEd25519, publicKeyStr, message), NoErr)

parseRSAPublicKey(publicKeyStr) ==
    IF publicKeyStr.kind = "rsa" THEN NoErr ELSE ErrInvalidPublicKey

verifyRSAPSS(publicKeyStr, message, signatureStr) ==
    IF parseRSAPublicKey(publicKeyStr) # NoErr
    THEN Result(FALSE, parseRSAPublicKey(publicKeyStr))
    ELSE IF ~signatureStr.wf THEN Result(FALSE, ErrInvalidSignature)
    ELSE Result(signatureStr = Sign(AlgRSAPSS, publicKeyStr, message), NoErr)

verifyRSASHA256(publicKeyStr, message, signatureStr) ==
    IF parseRSAPublicKey(publicKeyStr) # NoErr
    THEN Result(FALSE, parseRSAPublicKey(publicKeyStr))
    ELSE IF ~signatureStr.wf THEN Result(FALSE, ErrInvalidSignature)
    ELSE Result(signatureStr = Sign(AlgRSASHA256, publicKeyStr, message), NoErr)

verifySignature(alg, publicKeyStr, message, signatureStr) ==
    CASE alg = AlgEd25519 -> verifyEd25519(publicKeyStr, message, signatureStr)
      [] alg = AlgRSAPSS -> verifyRSAPSS(publicKeyStr, message, signatureStr)
      [] alg = AlgRSASHA256 -> verifyRSASHA256(publicKeyStr, message, signatureStr)
      [] alg = AlgSecp256k1 -> Result(FALSE, ErrNotImplemented)
      [] OTHER -> Result(FALSE, ErrInvalidAlgorithm)

isValidAlgorithm(alg) == alg \in {AlgEd25519, AlgSecp256k1, AlgRSAPSS, AlgRSASHA256}

-----------------------------------------------------------------------------
(* Store queries: each is one SQL statement over the current tables *)

\* SELECT ... FROM challenges WHERE challenge = ? AND expires_at > datetime('now')
GetChallenge(challengeStr) ==
    LET rows == {c \in challenges : c.challenge = challengeStr /\ c.expires_at > DatetimeNow}
    IN IF rows = {} THEN Nil ELSE CHOOSE c \in rows : TRUE

\* DELETE FROM challenges WHERE id = ?
DeleteChallenge(id) == {c \in challenges : c.id # id}

\* The query without "AND expires_at > datetime('now')": expired tokens are
\* returned too.
GetTokenIgnoringExpiry(tokenStr) ==
    LET rows == {t \in tokens : t.token = tokenStr}
    IN IF rows = {} THEN Nil ELSE CHOOSE t \in rows : TRUE

\* SELECT ... FROM tokens WHERE token = ? AND expires_at > datetime('now')
GetToken(tokenStr) ==
    LET rows == {t \in tokens : t.token = tokenStr /\ t.expires_at > DatetimeNow}
    IN IF rows = {} THEN Nil ELSE CHOOSE t \in rows : TRUE

\* The query without "AND revoked_at IS NULL": revoked keys are returned too.
GetAnyAccountKeyByPublicKey(alg, publicKey) ==
    LET rows == {k \in account_keys : k.algorithm = alg /\ k.public_key = publicKey}
    IN IF rows = {} THEN Nil ELSE CHOOSE k \in rows : TRUE

\* SELECT ... FROM account_keys WHERE algorithm = ? AND public_key = ? AND revoked_at IS NULL
GetAccountKeyByPublicKey(alg, publicKey) ==
    LET rows == {k \in account_keys :
                    k.algorithm = alg /\ k.public_key = publicKey /\ ~k.revoked_at.valid}
    IN IF rows = {} THEN Nil ELSE CHOOSE k \in rows : TRUE

\* SELECT ... FROM account_keys WHERE id = ?  (no row: sql.ErrNoRows is returned as the error)
GetAccountKey(id) ==
    LET rows == {k \in account_keys : k.id = id}
    IN IF rows = {} THEN Nil ELSE CHOOSE k \in rows : TRUE

\* SELECT ... FROM accounts WHERE id = ?  (no row: sql.ErrNoRows is returned as the error)
GetAccount(id) == IF id \in accounts THEN id ELSE ""

\* A table without the constraint: no insert is rejected.
KeyInsertNeverRejected(alg, publicKey) == FALSE

\* UNIQUE(algorithm, public_key) of account_keys: the insert is rejected when any
\* row, revoked or not, holds the pair.
KeyInsertRejected(alg, publicKey) ==
    \E k \in account_keys : k.algorithm = alg /\ k.public_key = publicKey

\* UPDATE account_keys SET revoked_at = ? WHERE id = ?
RevokeAccountKey(id) ==
    {IF k.id = id THEN [k EXCEPT !.revoked_at = TimeOf(now)] ELSE k : k \in account_keys}

\* Outcomes of one store call: it may fail while the environment still injects faults.
StoreFails == IF faults > 0 THEN {FALSE, TRUE} ELSE {FALSE}

-----------------------------------------------------------------------------
(* Requests.  A field of a request is drawn when its handler first reads it. *)

RequestAlgorithms == {AlgEd25519, AlgRSAPSS, AlgRSASHA256, AlgSecp256k1, "hmac"}

\* The agent and the algorithms challenges are requested for; the other agent
\* only presents challenges.
ChallengeAgents == {"a1"}
ChallengeAlgorithms == {AlgEd25519, AlgRSAPSS, AlgSecp256k1, "hmac"}

\* Challenge strings a client may present: those issued so far and those the
\* service may still issue.
ChallengeStrings == {RandomString("ch", n) : n \in 1..limit.challenges}

\* Signatures a client may send for a request: the correct one, one over another
\* message, and bytes that do not decode.
SignatureChoices(alg, key, chal) ==
    {Sign(alg, key, chal), Sign(alg, key, "other"), MalformedSignature}

\* The key an honest client holds for an algorithm.
KeyFor(alg) == IF alg \in {AlgRSAPSS, AlgRSASHA256} THEN KeyRSA ELSE KeyEd

\* Verification requests a client may send for a challenge string: under any
\* agent and algorithm its own key with the correct signature, and under the
\* agent and the algorithms challenges are requested for any key with any
\* signature.
VerifyRequests(chal) ==
    {q \in UNION {{[agent |-> a, alg |-> g, key |-> k, sig |-> sg] :
                      sg \in SignatureChoices(g, k, chal)} :
                  a \in Agents, g \in RequestAlgorithms, k \in PublicKeys} :
        \/ q.key = KeyFor(q.alg) /\ q.sig = Sign(q.alg, q.key, chal)
        \/ q.agent \in ChallengeAgents /\ q.alg \in ChallengeAlgorithms /\ isValidAlgorithm(q.alg)}

\* Bearer tokens a client may send: none (""), a string never issued, or an issued one.
BearerChoices == {"", "forged"} \cup {t.token : t \in tokens}

\* Path values {id} and {keyId} a client may send: an id in the store, or a
\* string that is no id.
AccountIDs == accounts \cup {"acc0"}
KeyIDs == {k.id : k \in account_keys} \cup {"key0"}

\* Requests that may still have a token issued, and the bound on tokens issued.
Issuing == {q \in Procs : reqs[q].pc \in {"get", "check", "lookup", "token", "ak_acct", "ak_auth"}}
MayIssue == Cardinality(issued) + Cardinality(Issuing) < limit.tokens

Idle ==
    [op |-> "idle", pc |-> "idle",
     agent |-> "", alg |-> "", key |-> Nil, chal |-> "", sig |-> MalformedSignature,
     bearer |-> "", acct |-> "", keyid |-> "",
     auth |-> Nil, challenge |-> Nil, accountKey |-> Nil, token |-> Nil, account |-> "",
     key_id |-> "", status |-> 0, err |-> NoErr]

Finish(r, status, err) == [r EXCEPT !.pc = "done", !.status = status, !.err = err]

\* A response is written before any other request takes its next step: writing
\* it touches nothing shared.
NoResponsePending == \A q \in Procs : reqs[q].pc # "done"

\* The handlers' switch over the error of VerifyAndCreateToken.
VerifyErrorStatus(op, err) ==
    IF op = "add_key"
    THEN (IF err = ErrInvalidSignature THEN 401 ELSE 400)
    ELSE CASE err = ErrInvalidAlgorithm -> 400
           [] err = ErrInvalidPublicKey -> 400
           [] err = ErrInvalidSignature -> 401
           [] err \in {ErrChallengeNotFound, ErrChallengeExpired} -> 400
           [] OTHER -> 500

VerifyFailed(r, err) == Finish(r, VerifyErrorStatus(r.op, err), err)

-----------------------------------------------------------------------------
(* Time *)

Tick ==
    /\ NoResponsePending
    /\ now < MaxTime
    /\ now' = now + 1
    /\ UNCHANGED <<challengeTTL, tokenTTL, challenges, tokens, accounts, account_keys,
                   nChallenges, faults, limit, reqs, issued>>
    /\ UNCHANGED <<contentVars, limiterVars>>

-----------------------------------------------------------------------------
(* POST /api/auth/challenge: Handler.CreateChallenge, Service.CreateChallenge,
   SQLiteStore.CreateChallenge *)

CreateChallenge(p) ==
    /\ NoResponsePending
    /\ reqs[p].pc = "idle"
    /\ nChallenges < limit.challenges
    /\ \E agentID \in ChallengeAgents, alg \in ChallengeAlgorithms, fail \in StoreFails :
        LET r == [Idle EXCEPT !.op = "challenge", !.agent = agentID, !.alg = alg]
            challenge == [id |-> RandomString("c", nChallenges + 1),
                          agent_id |-> agentID,
                          algorithm |-> alg,
                          challenge |-> RandomString("ch", nChallenges + 1),
                          expires_at |-> now + challengeTTL]
        IN IF ~isValidAlgorithm(alg)
           THEN /\ reqs' = [reqs EXCEPT ![p] = Finish(r, 400, ErrInvalidAlgorithm)]
                /\ UNCHANGED <<challenges, nChallenges, faults>>
           ELSE IF fail
           THEN /\ reqs' = [reqs EXCEPT ![p] = Finish(r, 500, ErrStorage)]
                /\ faults' = faults - 1
                /\ UNCHANGED <<challenges, nChallenges>>
           ELSE /\ challenges' = challenges \cup
                       {[challenge EXCEPT !.expires_at = FormatSeconds(challenge.expires_at)]}
                /\ nChallenges' = nChallenges + 1
                /\ reqs' = [reqs EXCEPT ![p] =
                              Finish([r EXCEPT !.challenge = challenge], 200, NoErr)]
                /\ UNCHANGED faults
    /\ UNCHANGED <<now, challengeTTL, tokenTTL, tokens, accounts, account_keys, limit, issued>>
    /\ UNCHANGED <<contentVars, limiterVars>>

-----------------------------------------------------------------------------
(* Handler.validateToken, Service.ValidateToken, SQLiteStore.GetToken *)

\* Service.ValidateToken: the stored token, or nil without an error when the
\* store returns none.
ValidateToken(tokenStr) == GetToken(tokenStr)

\* The token and error Handler.validateToken returns for a bearer string.
validateToken(tokenStr, fail) ==
    IF tokenStr = "" THEN [token |-> Nil, err |-> NoErr]
    ELSE IF fail THEN [token |-> Nil, err |-> ErrStorage]
    ELSE [token |-> ValidateToken(tokenStr), err |-> NoErr]

\* Whether the call reached the store and the store failed.
Faulted(tokenStr, fail) == tokenStr # "" /\ fail

\* Handler.RequireAuth in front of CreateAccount, AddAccountKey and DeleteAccountKey
RequireAuth(p) ==
    /\ NoResponsePending
    /\ reqs[p].pc = "idle"
    /\ \E op \in {"create_account", "add_key", "revoke_key"},
          tokenStr \in BearerChoices, fail \in StoreFails :
        /\ op # "revoke_key" => MayIssue
        /\ reqs' = [reqs EXCEPT ![p] =
                LET r == [Idle EXCEPT !.op = op, !.bearer = tokenStr]
                    v == validateToken(tokenStr, fail)
                IN IF v.err # NoErr \/ v.token = Nil
                   THEN Finish(r, 401, v.err)
                   ELSE [r EXCEPT !.pc = CASE op = "create_account" -> "get"
                                           [] op = "add_key" -> "ak_acct"
                                           [] op = "revoke_key" -> "dk_auth"]]
        /\ faults' = IF Faulted(tokenStr, fail) THEN faults - 1 ELSE faults
    /\ UNCHANGED <<now, challengeTTL, tokenTTL, challenges, tokens, accounts, account_keys,
                   nChallenges, limit, issued>>
    /\ UNCHANGED <<contentVars, limiterVars>>

-----------------------------------------------------------------------------
(* Service.VerifyAndCreateToken, as called by VerifyChallenge, CreateAccount and
   AddAccountKey *)

\* s.store.GetChallenge and the nil check, for request r of p
GetChallengeStep(p, r) ==
    /\ \E chal \in ChallengeStrings, fail \in StoreFails :
        IF fail
        THEN /\ reqs' = [reqs EXCEPT ![p] = VerifyFailed([r EXCEPT !.chal = chal], ErrStorage)]
             /\ faults' = faults - 1
        ELSE /\ reqs' = [reqs EXCEPT ![p] =
                    IF GetChallenge(chal) = Nil
                    THEN VerifyFailed([r EXCEPT !.chal = chal], ErrChallengeNotFound)
                    ELSE [r EXCEPT !.chal = chal, !.pc = "check",
                                   !.challenge = GetChallenge(chal)]]
             /\ UNCHANGED faults
    /\ UNCHANGED <<now, challengeTTL, tokenTTL, challenges, tokens, accounts, account_keys,
                   nChallenges, limit, issued>>
    /\ UNCHANGED <<contentVars, limiterVars>>

\* POST /api/auth/verify: Handler.VerifyChallenge up to the first store call
VerifyChallenge(p) ==
    /\ NoResponsePending
    /\ reqs[p].pc = "idle"
    /\ MayIssue
    /\ GetChallengeStep(p, [Idle EXCEPT !.op = "verify"])

\* the same call made by CreateAccount and AddAccountKey
VerifyGetChallenge(p) ==
    /\ NoResponsePending
    /\ reqs[p].pc = "get"
    /\ GetChallengeStep(p, reqs[p])

\* A service that leaves expiry to the lookup alone.
ChallengeNeverExpired(challenge) == FALSE

\* time.Now().After(challenge.ExpiresAt)
ChallengeExpired(challenge) == now > challenge.expires_at

\* A service that verifies a challenge for whoever presents it.
BoundToAnyone(challenge, agentID, alg) == TRUE

\* challenge.AgentID == agentID && challenge.Algorithm == alg
BoundTo(challenge, agentID, alg) ==
    challenge.agent_id = agentID /\ challenge.algorithm = alg

\* the expiry and binding checks, verifySignature, and s.store.DeleteChallenge,
\* whose error is dropped
VerifyCheckAndDelete(p) ==
    /\ NoResponsePending
    /\ reqs[p].pc = "check"
    /\ \E q \in VerifyRequests(reqs[p].chal) :
        /\ reqs[p].op = "add_key" => q.agent = reqs[p].auth.agent_id
        /\ LET r == [reqs[p] EXCEPT !.agent = q.agent, !.alg = q.alg, !.key = q.key,
                                    !.sig = q.sig]
                v == verifySignature(r.alg, r.key, r.chal, r.sig)
            IN IF ChallengeExpired(r.challenge)
               THEN /\ reqs' = [reqs EXCEPT ![p] = VerifyFailed(r, ErrChallengeExpired)]
                    /\ UNCHANGED <<challenges, faults>>
               ELSE IF ~BoundTo(r.challenge, r.agent, r.alg)
               THEN /\ reqs' = [reqs EXCEPT ![p] = VerifyFailed(r, ErrChallengeNotFound)]
                    /\ UNCHANGED <<challenges, faults>>
               ELSE IF v.err # NoErr
               THEN /\ reqs' = [reqs EXCEPT ![p] = VerifyFailed(r, v.err)]
                    /\ UNCHANGED <<challenges, faults>>
               ELSE IF ~v.valid
               THEN /\ reqs' = [reqs EXCEPT ![p] = VerifyFailed(r, ErrInvalidSignature)]
                    /\ UNCHANGED <<challenges, faults>>
               ELSE \E fail \in StoreFails :
                    /\ challenges' = IF fail THEN challenges
                                     ELSE DeleteChallenge(r.challenge.id)
                    /\ faults' = IF fail THEN faults - 1 ELSE faults
                    /\ reqs' = [reqs EXCEPT ![p] = [r EXCEPT !.pc = "lookup"]]
    /\ UNCHANGED <<now, challengeTTL, tokenTTL, tokens, accounts, account_keys,
                   nChallenges, limit, issued>>
    /\ UNCHANGED <<contentVars, limiterVars>>

\* s.store.GetAccountKeyByPublicKey
VerifyLookupKey(p) ==
    LET r == reqs[p] IN
    /\ NoResponsePending
    /\ r.pc = "lookup"
    /\ \E fail \in StoreFails :
        IF fail
        THEN /\ reqs' = [reqs EXCEPT ![p] = VerifyFailed(r, ErrStorage)]
             /\ faults' = faults - 1
        ELSE /\ reqs' = [reqs EXCEPT ![p] =
                    [r EXCEPT !.pc = "token",
                              !.accountKey = GetAccountKeyByPublicKey(r.alg, r.key)]]
             /\ UNCHANGED faults
    /\ UNCHANGED <<now, challengeTTL, tokenTTL, challenges, tokens, accounts, account_keys,
                   nChallenges, limit, issued>>
    /\ UNCHANGED <<contentVars, limiterVars>>

\* publicKey[:16]
Prefix16(publicKey) == publicKey.head

\* the token built from the key found
NewToken(r) ==
    [id |-> RandomString("t", Cardinality(tokens) + 1),
     account_id |-> IF r.accountKey # Nil THEN r.accountKey.account_id ELSE "",
     key_id |-> IF r.accountKey # Nil THEN r.accountKey.id
                ELSE "unregistered:" \o Prefix16(r.key),
     agent_id |-> r.agent,
     token |-> RandomString("tok", Cardinality(tokens) + 1),
     expires_at |-> now + tokenTTL]

\* where the caller of VerifyAndCreateToken goes on
AfterVerify(r) ==
    CASE r.op = "verify" -> Finish([r EXCEPT !.key_id = r.token.key_id], 200, NoErr)
      [] r.op = "create_account" -> [r EXCEPT !.pc = "ca_check"]
      [] r.op = "add_key" -> [r EXCEPT !.pc = "ak_check"]

\* s.store.CreateToken and the return of the token
VerifyCreateToken(p) ==
    LET r == reqs[p]
        token == NewToken(r)
    IN
    /\ NoResponsePending
    /\ r.pc = "token"
    /\ \E fail \in StoreFails :
        IF fail
        THEN /\ reqs' = [reqs EXCEPT ![p] = VerifyFailed(r, ErrStorage)]
             /\ faults' = faults - 1
             /\ UNCHANGED <<tokens, issued>>
        ELSE /\ tokens' = tokens \cup
                    {[token EXCEPT !.expires_at = FormatSeconds(token.expires_at)]}
             /\ issued' = issued \cup {[token |-> token.token, challenge |-> r.chal,
                                        expires_at |-> token.expires_at]}
             /\ reqs' = [reqs EXCEPT ![p] = AfterVerify([r EXCEPT !.token = token])]
             /\ UNCHANGED faults
    /\ UNCHANGED <<now, challengeTTL, tokenTTL, challenges, accounts, account_keys,
                   nChallenges, limit>>
    /\ UNCHANGED <<contentVars, limiterVars>>

-----------------------------------------------------------------------------
(* POST /api/accounts: Handler.CreateAccount after the verification *)

NewAccountKey(accountID, alg, publicKey) ==
    [id |-> RandomString("key", Cardinality(account_keys) + 1),
     account_id |-> accountID,
     algorithm |-> alg,
     public_key |-> publicKey,
     revoked_at |-> NullTime]

\* "Check if key is already registered": h.store.GetAccountKeyByPublicKey
CheckKeyRegistered(p, pcHere, pcNext) ==
    LET r == reqs[p] IN
    /\ NoResponsePending
    /\ r.pc = pcHere
    /\ \E fail \in StoreFails :
        IF fail
        THEN /\ reqs' = [reqs EXCEPT ![p] = Finish(r, 500, ErrStorage)]
             /\ faults' = faults - 1
        ELSE /\ reqs' = [reqs EXCEPT ![p] =
                    IF GetAccountKeyByPublicKey(r.alg, r.key) # Nil
                    THEN Finish(r, 409, NoErr)
                    ELSE [r EXCEPT !.pc = pcNext]]
             /\ UNCHANGED faults
    /\ UNCHANGED <<now, challengeTTL, tokenTTL, challenges, tokens, accounts, account_keys,
                   nChallenges, limit, issued>>
    /\ UNCHANGED <<contentVars, limiterVars>>

\* h.store.CreateAccountKey and the response
InsertAccountKey(p, pcHere, accountID) ==
    LET r == reqs[p]
        key == NewAccountKey(accountID, r.alg, r.key)
    IN
    /\ NoResponsePending
    /\ r.pc = pcHere
    /\ \E fail \in StoreFails :
        IF fail \/ KeyInsertRejected(r.alg, r.key)
        THEN /\ reqs' = [reqs EXCEPT ![p] = Finish(r, 500, ErrStorage)]
             /\ faults' = IF fail THEN faults - 1 ELSE faults
             /\ UNCHANGED account_keys
        ELSE /\ account_keys' = account_keys \cup {key}
             /\ reqs' = [reqs EXCEPT ![p] = Finish([r EXCEPT !.key_id = key.id], 201, NoErr)]
             /\ UNCHANGED faults
    /\ UNCHANGED <<now, challengeTTL, tokenTTL, challenges, tokens, accounts,
                   nChallenges, limit, issued>>
    /\ UNCHANGED <<contentVars, limiterVars>>

CreateAccountCheckKey(p) == CheckKeyRegistered(p, "ca_check", "ca_acct")

\* h.store.CreateAccount
CreateAccountInsert(p) ==
    LET r == reqs[p]
        id == RandomString("acc", Cardinality(accounts) + 1)
    IN
    /\ NoResponsePending
    /\ r.pc = "ca_acct"
    /\ \E fail \in StoreFails :
        IF fail
        THEN /\ reqs' = [reqs EXCEPT ![p] = Finish(r, 500, ErrStorage)]
             /\ faults' = faults - 1
             /\ UNCHANGED accounts
        ELSE /\ accounts' = accounts \cup {id}
             /\ reqs' = [reqs EXCEPT ![p] = [r EXCEPT !.pc = "ca_key", !.account = id]]
             /\ UNCHANGED faults
    /\ UNCHANGED <<now, challengeTTL, tokenTTL, challenges, tokens, account_keys,
                   nChallenges, limit, issued>>
    /\ UNCHANGED <<contentVars, limiterVars>>

CreateAccountInsertKey(p) == InsertAccountKey(p, "ca_key", reqs[p].account)

-----------------------------------------------------------------------------
(* POST /api/accounts/{id}/keys: Handler.AddAccountKey *)

\* "Verify account exists": h.store.GetAccount, which returns sql.ErrNoRows as
\* its error when there is no such account
AddKeyGetAccount(p) ==
    /\ NoResponsePending
    /\ reqs[p].pc = "ak_acct"
    /\ \E accountID \in AccountIDs, fail \in StoreFails :
        LET r == [reqs[p] EXCEPT !.acct = accountID] IN
        IF fail
        THEN /\ reqs' = [reqs EXCEPT ![p] = Finish(r, 500, ErrStorage)]
             /\ faults' = faults - 1
        ELSE /\ reqs' = [reqs EXCEPT ![p] =
                    IF GetAccount(accountID) = ""
                    THEN Finish(r, 500, ErrStorage)
                    ELSE [r EXCEPT !.pc = "ak_auth"]]
             /\ UNCHANGED faults
    /\ UNCHANGED <<now, challengeTTL, tokenTTL, challenges, tokens, accounts, account_keys,
                   nChallenges, limit, issued>>
    /\ UNCHANGED <<contentVars, limiterVars>>

\* The handler without "if token.AccountID != accountID": any valid token is
\* taken as the owner's.
AddKeyAuthorizeAnyToken(p) ==
    LET r == reqs[p] IN
    /\ NoResponsePending
    /\ r.pc = "ak_auth"
    /\ \E fail \in StoreFails :
        LET v == validateToken(r.bearer, fail) IN
        /\ reqs' = [reqs EXCEPT ![p] =
                IF v.err # NoErr \/ v.token = Nil THEN Finish(r, 401, v.err)
                ELSE [r EXCEPT !.pc = "get", !.auth = v.token]]
        /\ faults' = IF Faulted(r.bearer, fail) THEN faults - 1 ELSE faults
    /\ UNCHANGED <<now, challengeTTL, tokenTTL, challenges, tokens, accounts, account_keys,
                   nChallenges, limit, issued>>
    /\ UNCHANGED <<contentVars, limiterVars>>

\* "Verify the request is from an authenticated owner of this account"
AddKeyAuthorize(p) ==
    LET r == reqs[p] IN
    /\ NoResponsePending
    /\ r.pc = "ak_auth"
    /\ \E fail \in StoreFails :
        LET v == validateToken(r.bearer, fail) IN
        /\ reqs' = [reqs EXCEPT ![p] =
                IF v.err # NoErr \/ v.token = Nil THEN Finish(r, 401, v.err)
                ELSE IF v.token.account_id # r.acct THEN Finish(r, 403, NoErr)
                ELSE [r EXCEPT !.pc = "get", !.auth = v.token]]
        /\ faults' = IF Faulted(r.bearer, fail) THEN faults - 1 ELSE faults
    /\ UNCHANGED <<now, challengeTTL, tokenTTL, challenges, tokens, accounts, account_keys,
                   nChallenges, limit, issued>>
    /\ UNCHANGED <<contentVars, limiterVars>>

AddKeyCheckKey(p) == CheckKeyRegistered(p, "ak_check", "ak_key")

AddKeyInsertKey(p) == InsertAccountKey(p, "ak_key", reqs[p].acct)

-----------------------------------------------------------------------------
(* DELETE /api/accounts/{id}/keys/{keyId}: Handler.DeleteAccountKey *)

\* "Verify the request is from an authenticated owner of this account"
DeleteKeyAuthorize(p) ==
    /\ NoResponsePending
    /\ reqs[p].pc = "dk_auth"
    /\ \E accountID \in accounts, keyID \in KeyIDs, fail \in StoreFails :
        LET r == [reqs[p] EXCEPT !.acct = accountID, !.keyid = keyID]
            v == validateToken(r.bearer, fail)
        IN
        /\ reqs' = [reqs EXCEPT ![p] =
                IF v.err # NoErr \/ v.token = Nil THEN Finish(r, 401, v.err)
                ELSE IF v.token.account_id # r.acct THEN Finish(r, 403, NoErr)
                ELSE [r EXCEPT !.pc = "dk_get", !.auth = v.token]]
        /\ faults' = IF Faulted(r.bearer, fail) THEN faults - 1 ELSE faults
    /\ UNCHANGED <<now, challengeTTL, tokenTTL, challenges, tokens, accounts, account_keys,
                   nChallenges, limit, issued>>
    /\ UNCHANGED <<contentVars, limiterVars>>

\* A handler that lets a token revoke its own key.
KeyNeverInUse(key, token) == FALSE

\* key.ID == token.KeyID
KeyInUse(key, token) == key.id = token.key_id

\* "Verify the key belongs to this account" and "Don't allow revoking the key
\* being used for this request": h.store.GetAccountKey, which returns
\* sql.ErrNoRows as its error when there is no such key
DeleteKeyGetKey(p) ==
    /\ NoResponsePending
    /\ reqs[p].pc = "dk_get"
    /\ \E fail \in StoreFails :
        LET r == reqs[p]
            key == GetAccountKey(r.keyid)
        IN
        IF fail
        THEN /\ reqs' = [reqs EXCEPT ![p] = Finish(r, 500, ErrStorage)]
             /\ faults' = faults - 1
        ELSE /\ reqs' = [reqs EXCEPT ![p] =
                    IF key = Nil THEN Finish(r, 500, ErrStorage)
                    ELSE IF key.account_id # r.acct THEN Finish(r, 403, NoErr)
                    ELSE IF KeyInUse(key, r.auth) THEN Finish(r, 400, NoErr)
                    ELSE [r EXCEPT !.pc = "dk_revoke", !.accountKey = key]]
             /\ UNCHANGED faults
    /\ UNCHANGED <<now, challengeTTL, tokenTTL, challenges, tokens, accounts, account_keys,
                   nChallenges, limit, issued>>
    /\ UNCHANGED <<contentVars, limiterVars>>

\* h.store.RevokeAccountKey and the response
DeleteKeyRevoke(p) ==
    LET r == reqs[p] IN
    /\ NoResponsePending
    /\ r.pc = "dk_revoke"
    /\ \E fail \in StoreFails :
        IF fail
        THEN /\ reqs' = [reqs EXCEPT ![p] = Finish(r, 500, ErrStorage)]
             /\ faults' = faults - 1
             /\ UNCHANGED account_keys
        ELSE /\ account_keys' = RevokeAccountKey(r.keyid)
             /\ reqs' = [reqs EXCEPT ![p] = Finish(r, 200, NoErr)]
             /\ UNCHANGED faults
    /\ UNCHANGED <<now, challengeTTL, tokenTTL, challenges, tokens, accounts,
                   nChallenges, limit, issued>>
    /\ UNCHANGED <<contentVars, limiterVars>>

-----------------------------------------------------------------------------
(* SQLiteStore.DeleteExpiredTokens, which no handler calls: run against the
   store from outside the requests *)

\* A delete that also takes the tokens expiring within the next second.
ExpiringTokens == {t \in tokens : t.expires_at <= DatetimeNow + TicksPerSecond}

\* The rows DELETE FROM tokens WHERE expires_at < datetime('now') removes.
ExpiredTokens == {t \in tokens : t.expires_at < DatetimeNow}

DeleteExpiredTokens ==
    /\ NoResponsePending
    /\ ExpiredTokens # {}
    /\ tokens' = tokens \ ExpiredTokens
    /\ UNCHANGED <<now, challengeTTL, tokenTTL, challenges, accounts, account_keys,
                   nChallenges, faults, limit, reqs, issued>>
    /\ UNCHANGED <<contentVars, limiterVars>>

-----------------------------------------------------------------------------
(* The response is written and the request ends *)

Return(p) ==
    /\ reqs[p].pc = "done"
    /\ reqs' = [reqs EXCEPT ![p] = Idle]
    /\ UNCHANGED <<now, challengeTTL, tokenTTL, challenges, tokens, accounts, account_keys,
                   nChallenges, faults, issued, limit>>
    /\ UNCHANGED <<contentVars, limiterVars>>

-----------------------------------------------------------------------------
(* Content: stories, comments and votes behind RequireAuth and the rate
   limiter, and moderation by the admin *)

\* The configuration, scaled down: the rate-limit window and the duplicate
\* window in ticks (an hour and thirty days by default), and the requests of
\* each action let through per window (10, 60 and 120 by default).
RateLimitWindow == 2
StoryRateLimit == 1
CommentRateLimit == 1
VoteRateLimit == 2
DuplicateWindow == 2

\* Bounds of a run: requests that reach the rate limiter, and stories,
\* comments and votes submitted.
MaxAdmitted == 3
MaxStories == 2
MaxComments == 1
MaxVotes == 2

ContentOps == {"story", "comment", "vote"}

\* Addresses requests come from, X-Agent-Id headers, X-Admin-Secret headers,
\* and the url of a story ("": a text story).
ClientIPs == quota.ips
AgentHeaders == {"", "a1"}
SecretHeaders == {"", "s3cret", "guess"}
StoryURLs == {"", "u1"}

\* auth.HashIP: the hex of the first 16 bytes of the SHA-256 of the address.
HashIP(ip) == "sha256:" \o ip

CIdle ==
    [op |-> "idle", pc |-> "idle", bearer |-> "", ip |-> "", xagent |-> "", secret |-> "",
     auth |-> Nil, agent |-> "", verified |-> FALSE,
     url |-> "", target_type |-> "", target_id |-> "", value |-> 0,
     existing |-> Nil, delta |-> 0, id |-> "", status |-> 0]

CFinish(r, status) == [r EXCEPT !.pc = "done", !.status = status]

NoContentResponsePending == \A q \in Procs : creqs[q].pc # "done"

\* Requests of an operation that are past RequireAuth and not yet answered.
InFlight(op) == {q \in Procs : creqs[q].op = op /\ creqs[q].pc \notin {"idle", "done"}}

\* Bounds on what the clients ask for in one run.
MayAdmit == admitted + Cardinality({q \in Procs : creqs[q].pc = "rate"}) < quota.admitted
MayCreate(op) ==
    CASE op = "story" -> Cardinality(stories) + Cardinality(InFlight("story")) < quota.stories
      [] op = "comment" -> Cardinality(comments) + Cardinality(InFlight("comment")) < quota.comments
      [] op = "vote" -> Cardinality(votes) + Cardinality(InFlight("vote")) < quota.votes

(* Store queries of the content tables *)

\* The query without "AND hidden = 0".
GetStoryEvenIfHidden(id) ==
    LET rows == {s \in stories : s.id = id}
    IN IF rows = {} THEN Nil ELSE CHOOSE s \in rows : TRUE

\* SELECT ... FROM stories WHERE id = ? AND hidden = 0
GetStory(id) ==
    LET rows == {s \in stories : s.id = id /\ ~s.hidden}
    IN IF rows = {} THEN Nil ELSE CHOOSE s \in rows : TRUE

\* SELECT ... FROM stories WHERE url = ? AND created_at > ? AND hidden = 0
\* ORDER BY created_at DESC LIMIT 1: the rows the query may return
FindStoryByURL(url, since) ==
    LET rows == {s \in stories : s.url = url /\ s.created_at > since /\ ~s.hidden}
    IN {s \in rows : \A s2 \in rows : s2.created_at <= s.created_at}

\* SELECT ... FROM stories WHERE hidden = 0 ORDER BY ... LIMIT ?: the rows a
\* page of the listing is taken from
ListStories == {s \in stories : ~s.hidden}

\* SELECT ... FROM comments WHERE story_id = ? AND hidden = 0 ORDER BY ...
ListComments(storyID) == {c \in comments : c.story_id = storyID /\ ~c.hidden}

\* SELECT ... FROM comments WHERE id = ? AND hidden = 0
GetComment(id) ==
    LET rows == {c \in comments : c.id = id /\ ~c.hidden}
    IN IF rows = {} THEN Nil ELSE CHOOSE c \in rows : TRUE

\* SELECT ... FROM votes WHERE target_type = ? AND target_id = ? AND
\* (ip_hash = ? OR agent_id = ?): the rows the query may return the first of
GetVote(targetType, targetID, ipHash, agentID) ==
    {v \in votes : /\ v.target_type = targetType
                   /\ v.target_id = targetID
                   /\ (v.ip_hash = ipHash \/ v.agent_id = agentID)}

\* UNIQUE(target_type, target_id, ip_hash, agent_id) of votes
VoteInsertRejected(vote) ==
    \E v \in votes : /\ v.target_type = vote.target_type
                     /\ v.target_id = vote.target_id
                     /\ v.ip_hash = vote.ip_hash
                     /\ v.agent_id = vote.agent_id

\* UPDATE stories SET score = score + ? WHERE id = ?
UpdateStoryScore(id, delta) ==
    {IF s.id = id THEN [s EXCEPT !.score = @ + delta] ELSE s : s \in stories}

\* UPDATE comments SET score = score + ? WHERE id = ?
UpdateCommentScore(id, delta) ==
    {IF c.id = id THEN [c EXCEPT !.score = @ + delta] ELSE c : c \in comments}

\* UPDATE stories SET comment_count = comment_count + ? WHERE id = ?
UpdateStoryCommentCount(id, delta) ==
    {IF s.id = id THEN [s EXCEPT !.comment_count = @ + delta] ELSE s : s \in stories}

\* UPDATE stories SET hidden = 1 WHERE id = ?
HideStory(id) == {IF s.id = id THEN [s EXCEPT !.hidden = TRUE] ELSE s : s \in stories}

\* UPDATE comments SET hidden = 1 WHERE id = ?
HideComment(id) == {IF c.id = id THEN [c EXCEPT !.hidden = TRUE] ELSE c : c \in comments}

\* UPDATE votes SET value = ? WHERE id = ?
UpdateVote(id, value) ==
    {IF v.id = id THEN [v EXCEPT !.value = value] ELSE v : v \in votes}

\* Ids a client may name: those in the table, or a string that is no id.
StoryIDs == {s.id : s \in stories} \cup {"s0"}
CommentIDs == {c.id : c \in comments} \cup {"c0"}

(* MemoryLimiter *)

\* the key has a bucket whose window has not elapsed
InWindow(key) == key \in DOMAIN buckets /\ ~(now > buckets[key].resetTime)

\* MemoryLimiter.Allow: its result
Allow(key, lim, window) == ~InWindow(key) \/ buckets[key].count < lim

\* MemoryLimiter.Allow: the buckets it leaves
AfterAllow(key, lim, window) ==
    IF ~InWindow(key)
    THEN [k \in DOMAIN buckets \cup {key} |->
            IF k = key THEN [count |-> 1, resetTime |-> now + window] ELSE buckets[k]]
    ELSE IF buckets[key].count >= lim THEN buckets
    ELSE [buckets EXCEPT ![key].count = @ + 1]

\* "Create rate limit key combining IP and agent"
RateLimitKey(action, ip, agentID) ==
    IF agentID # "" THEN action \o ":" \o ip \o ":" \o agentID ELSE action \o ":" \o ip

\* h.cfg.StoryRateLimit, CommentRateLimit, VoteRateLimit
RateLimitOf(action) ==
    CASE action = "story" -> StoryRateLimit
      [] action = "comment" -> CommentRateLimit
      [] action = "vote" -> VoteRateLimit

(* Handler.RequireAuth in front of CreateStory, CreateComment and CreateVote *)

ContentRequireAuth(p) ==
    /\ NoContentResponsePending
    /\ creqs[p].pc = "idle"
    /\ MayAdmit
    /\ \E op \in ContentOps, tokenStr \in BearerChoices, fail \in StoreFails :
        /\ MayCreate(op)
        /\ creqs' = [creqs EXCEPT ![p] =
                LET r == [CIdle EXCEPT !.op = op, !.bearer = tokenStr]
                    v == validateToken(tokenStr, fail)
                IN IF v.err # NoErr \/ v.token = Nil
                   THEN CFinish(r, 401)
                   ELSE [r EXCEPT !.pc = "rate", !.auth = v.token,
                                  !.agent = v.token.agent_id, !.verified = TRUE]]
        /\ faults' = IF Faulted(tokenStr, fail) THEN faults - 1 ELSE faults
    /\ UNCHANGED <<now, adminSecret, stories, comments, votes, buckets, admitted, quota>>
    /\ UNCHANGED <<authVars, limiterVars>>

\* Handler.checkRateLimit at the head of the three handlers
CheckRateLimit(p) ==
    /\ NoContentResponsePending
    /\ creqs[p].pc = "rate"
    /\ \E ip \in ClientIPs, agentID \in AgentHeaders :
        LET r == [creqs[p] EXCEPT !.ip = ip, !.xagent = agentID]
            key == RateLimitKey(r.op, ip, agentID)
            lim == RateLimitOf(r.op)
        IN IF Allow(key, lim, RateLimitWindow)
           THEN /\ buckets' = AfterAllow(key, lim, RateLimitWindow)
                /\ admitted' = admitted + 1
                /\ creqs' = [creqs EXCEPT ![p] =
                      [r EXCEPT !.pc = CASE r.op = "story" -> "s_find"
                                         [] r.op = "comment" -> "c_story"
                                         [] r.op = "vote" -> "v_target"]]
           ELSE /\ creqs' = [creqs EXCEPT ![p] = CFinish(r, 429)]
                /\ UNCHANGED <<buckets, admitted>>
    /\ UNCHANGED <<now, faults, adminSecret, stories, comments, votes, quota>>
    /\ UNCHANGED <<authVars, limiterVars>>

(* POST /api/stories: Handler.CreateStory after the rate-limit check *)

\* the validation of the body and "Check for duplicate URL"
CreateStoryFind(p) ==
    /\ NoContentResponsePending
    /\ creqs[p].pc = "s_find"
    /\ \E wellFormed \in BOOLEAN, url \in StoryURLs, fail \in StoreFails :
        LET r == [creqs[p] EXCEPT !.url = url]
            since == now - DuplicateWindow
        IN IF ~wellFormed
           THEN /\ creqs' = [creqs EXCEPT ![p] = CFinish(creqs[p], 400)]
                /\ UNCHANGED faults
           ELSE IF url = ""
           THEN /\ creqs' = [creqs EXCEPT ![p] = [r EXCEPT !.pc = "s_token"]]
                /\ UNCHANGED faults
           ELSE IF fail
           THEN /\ creqs' = [creqs EXCEPT ![p] = CFinish(r, 500)]
                /\ faults' = faults - 1
           ELSE /\ UNCHANGED faults
                /\ IF FindStoryByURL(url, since) = {}
                   THEN creqs' = [creqs EXCEPT ![p] = [r EXCEPT !.pc = "s_token"]]
                   ELSE \E existing \in FindStoryByURL(url, since) :
                           creqs' = [creqs EXCEPT ![p] =
                                        CFinish([r EXCEPT !.id = existing.id,
                                                          !.existing = existing], 200)]
    /\ UNCHANGED <<now, adminSecret, stories, comments, votes, buckets, admitted, quota>>
    /\ UNCHANGED <<authVars, limiterVars>>

\* "Get auth info": the token is validated again, its error dropped, and the
\* X-Agent-Id header is taken as the agent when there is one
CreateStoryToken(p) ==
    /\ NoContentResponsePending
    /\ creqs[p].pc = "s_token"
    /\ \E fail \in StoreFails :
        LET r == creqs[p]
            token == validateToken(r.bearer, fail).token
        IN /\ creqs' = [creqs EXCEPT ![p] =
                  [r EXCEPT !.pc = "s_insert",
                            !.agent = IF r.xagent # "" THEN r.xagent
                                      ELSE IF token # Nil THEN token.agent_id
                                      ELSE "",
                            !.verified = (token # Nil)]]
           /\ faults' = IF Faulted(r.bearer, fail) THEN faults - 1 ELSE faults
    /\ UNCHANGED <<now, adminSecret, stories, comments, votes, buckets, admitted, quota>>
    /\ UNCHANGED <<authVars, limiterVars>>

\* h.store.CreateStory and the response
CreateStoryInsert(p) ==
    /\ NoContentResponsePending
    /\ creqs[p].pc = "s_insert"
    /\ \E fail \in StoreFails :
        LET r == creqs[p]
            story == [id |-> RandomString("s", Cardinality(stories) + 1),
                      url |-> r.url, score |-> 0, comment_count |-> 0,
                      created_at |-> now, hidden |-> FALSE,
                      agent_id |-> r.agent, agent_verified |-> r.verified,
                      token_agent |-> r.auth.agent_id]
        IN IF fail
           THEN /\ creqs' = [creqs EXCEPT ![p] = CFinish(r, 500)]
                /\ faults' = faults - 1
                /\ UNCHANGED stories
           ELSE /\ stories' = stories \cup {story}
                /\ creqs' = [creqs EXCEPT ![p] = CFinish([r EXCEPT !.id = story.id], 201)]
                /\ UNCHANGED faults
    /\ UNCHANGED <<now, adminSecret, comments, votes, buckets, admitted, quota>>
    /\ UNCHANGED <<authVars, limiterVars>>

(* POST /api/comments: Handler.CreateComment after the rate-limit check,
   for a comment without a parent *)

\* "Verify story exists"
CreateCommentGetStory(p) ==
    /\ NoContentResponsePending
    /\ creqs[p].pc = "c_story"
    /\ \E storyID \in StoryIDs, fail \in StoreFails :
        LET r == [creqs[p] EXCEPT !.target_type = "story", !.target_id = storyID] IN
        IF fail
        THEN /\ creqs' = [creqs EXCEPT ![p] = CFinish(r, 500)]
             /\ faults' = faults - 1
        ELSE /\ creqs' = [creqs EXCEPT ![p] =
                    IF GetStory(storyID) = Nil THEN CFinish(r, 404)
                    ELSE [r EXCEPT !.pc = "c_insert"]]
             /\ UNCHANGED faults
    /\ UNCHANGED <<now, adminSecret, stories, comments, votes, buckets, admitted, quota>>
    /\ UNCHANGED <<authVars, limiterVars>>

\* h.store.CreateComment, with the agent RequireAuth put in the context
CreateCommentInsert(p) ==
    /\ NoContentResponsePending
    /\ creqs[p].pc = "c_insert"
    /\ \E fail \in StoreFails :
        LET r == creqs[p]
            comment == [id |-> RandomString("c", Cardinality(comments) + 1),
                        story_id |-> r.target_id, score |-> 0, hidden |-> FALSE,
                        agent_id |-> r.agent, agent_verified |-> r.verified,
                        token_agent |-> r.auth.agent_id]
        IN IF fail
           THEN /\ creqs' = [creqs EXCEPT ![p] = CFinish(r, 500)]
                /\ faults' = faults - 1
                /\ UNCHANGED comments
           ELSE /\ comments' = comments \cup {comment}
                /\ creqs' = [creqs EXCEPT ![p] = [r EXCEPT !.pc = "c_count", !.id = comment.id]]
                /\ UNCHANGED faults
    /\ UNCHANGED <<now, adminSecret, stories, votes, buckets, admitted, quota>>
    /\ UNCHANGED <<authVars, limiterVars>>

\* "Update story comment count", whose error is dropped, and the response
CreateCommentCount(p) ==
    /\ NoContentResponsePending
    /\ creqs[p].pc = "c_count"
    /\ \E fail \in StoreFails :
        /\ stories' = IF fail THEN stories
                      ELSE UpdateStoryCommentCount(creqs[p].target_id, 1)
        /\ faults' = IF fail THEN faults - 1 ELSE faults
        /\ creqs' = [creqs EXCEPT ![p] = CFinish(creqs[p], 201)]
    /\ UNCHANGED <<now, adminSecret, comments, votes, buckets, admitted, quota>>
    /\ UNCHANGED <<authVars, limiterVars>>

(* POST /api/votes: Handler.CreateVote after the rate-limit check *)

\* "Validate target exists and check for self-voting"
CreateVoteGetTarget(p) ==
    /\ NoContentResponsePending
    /\ creqs[p].pc = "v_target"
    /\ \E targetType \in {"story", "comment"}, value \in {1, -1}, fail \in StoreFails :
       \E targetID \in IF targetType = "story" THEN StoryIDs ELSE CommentIDs :
        LET r == [creqs[p] EXCEPT !.target_type = targetType, !.target_id = targetID,
                                  !.value = value]
            target == IF targetType = "story" THEN GetStory(targetID)
                      ELSE GetComment(targetID)
        IN IF fail
           THEN /\ creqs' = [creqs EXCEPT ![p] = CFinish(r, 500)]
                /\ faults' = faults - 1
           ELSE /\ creqs' = [creqs EXCEPT ![p] =
                       IF target = Nil THEN CFinish(r, 404)
                       ELSE IF target.agent_id # "" /\ target.agent_id = r.agent
                       THEN CFinish(r, 403)
                       ELSE [r EXCEPT !.pc = "v_get"]]
                /\ UNCHANGED faults
    /\ UNCHANGED <<now, adminSecret, stories, comments, votes, buckets, admitted, quota>>
    /\ UNCHANGED <<authVars, limiterVars>>

\* "Check for existing vote"
CreateVoteGetVote(p) ==
    /\ NoContentResponsePending
    /\ creqs[p].pc = "v_get"
    /\ \E fail \in StoreFails :
        LET r == creqs[p]
            rows == GetVote(r.target_type, r.target_id, HashIP(r.ip), r.agent)
        IN IF fail
           THEN /\ creqs' = [creqs EXCEPT ![p] = CFinish(r, 500)]
                /\ faults' = faults - 1
           ELSE /\ UNCHANGED faults
                /\ IF rows = {}
                   THEN creqs' = [creqs EXCEPT ![p] = [r EXCEPT !.pc = "v_write"]]
                   ELSE \E existingVote \in rows :
                           creqs' = [creqs EXCEPT ![p] =
                                        [r EXCEPT !.pc = "v_write", !.existing = existingVote]]
    /\ UNCHANGED <<now, adminSecret, stories, comments, votes, buckets, admitted, quota>>
    /\ UNCHANGED <<authVars, limiterVars>>

\* "Update existing vote if value changed", or "Create new vote"
CreateVoteWrite(p) ==
    /\ NoContentResponsePending
    /\ creqs[p].pc = "v_write"
    /\ \E fail \in StoreFails :
        LET r == creqs[p]
            vote == [id |-> RandomString("v", Cardinality(votes) + 1),
                     target_type |-> r.target_type, target_id |-> r.target_id,
                     value |-> r.value, ip_hash |-> HashIP(r.ip),
                     agent_id |-> r.agent, agent_verified |-> r.verified]
        IN IF r.existing # Nil /\ r.existing.value = r.value
           THEN /\ creqs' = [creqs EXCEPT ![p] = CFinish(r, 200)]
                /\ UNCHANGED <<votes, faults>>
           ELSE IF fail \/ (r.existing = Nil /\ VoteInsertRejected(vote))
           THEN /\ creqs' = [creqs EXCEPT ![p] = CFinish(r, 500)]
                /\ faults' = IF fail THEN faults - 1 ELSE faults
                /\ UNCHANGED votes
           ELSE IF r.existing # Nil
           THEN /\ votes' = UpdateVote(r.existing.id, r.value)
                /\ creqs' = [creqs EXCEPT ![p] =
                      [r EXCEPT !.pc = "v_score", !.delta = r.value - r.existing.value]]
                /\ UNCHANGED faults
           ELSE /\ votes' = votes \cup {vote}
                /\ creqs' = [creqs EXCEPT ![p] =
                      [r EXCEPT !.pc = "v_score", !.delta = r.value, !.id = vote.id]]
                /\ UNCHANGED faults
    /\ UNCHANGED <<now, adminSecret, stories, comments, buckets, admitted, quota>>
    /\ UNCHANGED <<authVars, limiterVars>>

\* "Update score", whose error is dropped, and the response
CreateVoteScore(p) ==
    /\ NoContentResponsePending
    /\ creqs[p].pc = "v_score"
    /\ \E fail \in StoreFails :
        LET r == creqs[p] IN
        /\ stories' = IF ~fail /\ r.target_type = "story"
                      THEN UpdateStoryScore(r.target_id, r.delta) ELSE stories
        /\ comments' = IF ~fail /\ r.target_type = "comment"
                       THEN UpdateCommentScore(r.target_id, r.delta) ELSE comments
        /\ faults' = IF fail THEN faults - 1 ELSE faults
        /\ creqs' = [creqs EXCEPT ![p] = CFinish(r, 200)]
    /\ UNCHANGED <<now, adminSecret, votes, buckets, admitted, quota>>
    /\ UNCHANGED <<authVars, limiterVars>>

(* POST /api/admin/hide: Handler.Hide *)

\* The comparison without the test for an empty configured secret.
isAdminEvenIfUnset(secret) == secret = adminSecret

\* Handler.isAdmin
isAdmin(secret) == adminSecret # "" /\ secret = adminSecret

\* "Check admin auth" and "Verify story exists" / "Verify comment exists"
HideGetTarget(p) ==
    /\ NoContentResponsePending
    /\ creqs[p].pc = "idle"
    /\ \E secret \in SecretHeaders, targetType \in {"story", "comment"}, fail \in StoreFails :
       \E targetID \in IF targetType = "story" THEN StoryIDs ELSE CommentIDs :
        LET r == [CIdle EXCEPT !.op = "hide", !.secret = secret,
                               !.target_type = targetType, !.target_id = targetID]
            target == IF targetType = "story" THEN GetStory(targetID)
                      ELSE GetComment(targetID)
        IN IF ~isAdmin(secret)
           THEN /\ creqs' = [creqs EXCEPT ![p] = CFinish([CIdle EXCEPT !.op = "hide",
                                                                      !.secret = secret], 401)]
                /\ UNCHANGED faults
           ELSE IF fail
           THEN /\ creqs' = [creqs EXCEPT ![p] = CFinish(r, 500)]
                /\ faults' = faults - 1
           ELSE /\ creqs' = [creqs EXCEPT ![p] =
                       IF target = Nil THEN CFinish(r, 404)
                       ELSE [r EXCEPT !.pc = "h_apply"]]
                /\ UNCHANGED faults
    /\ UNCHANGED <<now, adminSecret, stories, comments, votes, buckets, admitted, quota>>
    /\ UNCHANGED <<authVars, limiterVars>>

\* h.store.HideStory / h.store.HideComment and the response
HideApply(p) ==
    /\ NoContentResponsePending
    /\ creqs[p].pc = "h_apply"
    /\ \E fail \in StoreFails :
        LET r == creqs[p] IN
        IF fail
        THEN /\ creqs' = [creqs EXCEPT ![p] = CFinish(r, 500)]
             /\ faults' = faults - 1
             /\ UNCHANGED <<stories, comments>>
        ELSE /\ stories' = IF r.target_type = "story" THEN HideStory(r.target_id) ELSE stories
             /\ comments' = IF r.target_type = "comment" THEN HideComment(r.target_id)
                            ELSE comments
             /\ creqs' = [creqs EXCEPT ![p] = CFinish(r, 200)]
             /\ UNCHANGED faults
    /\ UNCHANGED <<now, adminSecret, votes, buckets, admitted, quota>>
    /\ UNCHANGED <<authVars, limiterVars>>

\* The response is written and the request ends
ContentReturn(p) ==
    /\ creqs[p].pc = "done"
    /\ creqs' = [creqs EXCEPT ![p] = CIdle]
    /\ UNCHANGED <<now, faults, adminSecret, stories, comments, votes, buckets, admitted, quota>>
    /\ UNCHANGED <<authVars, limiterVars>>

\* Time passes between the steps of content requests
ContentTick == NoContentResponsePending /\ Tick

-----------------------------------------------------------------------------
(* MemoryLimiter: Allow, Remaining and Cleanup called by concurrent goroutines.
   Each method is split at its lock and at its accesses to the buckets. *)

\* Bounds of a run: Allow calls made, and the largest limit and window passed.
MaxCalls == 3
MaxLimit == 2
MaxWindow == 2

\* Keys the callers pass.
LimiterKeys == {"k1", "k2"}

\* Limits and windows callers pass: a limit of 0 is a valid int.
Limits == 0..MaxLimit
Windows == 1..MaxWindow

LIdle == [pc |-> "idle", op |-> "idle", key |-> "", at |-> 0, b |-> Nil, result |-> 0]

NoLock == [writer |-> 0, readers |-> {}]

\* Allow without its lock.
MayLockAlways(p) == TRUE

\* l.mu.Lock() returns: no goroutine holds the lock
MayLock(p) == mu.writer = 0 /\ mu.readers = {}

\* l.mu.RLock() returns: no goroutine holds the write lock
MayRLock(p) == mu.writer = 0

\* b, ok := l.buckets[key]
Lookup(key) == IF key \in DOMAIN buckets THEN buckets[key] ELSE Nil

\* The test without now.After(b.resetTime): a window that never runs out.
NeverElapsed(b, at) == b = Nil

\* !ok || now.After(b.resetTime)
Elapsed(b, at) == b = Nil \/ at > b.resetTime

\* l.buckets[key] = &bucket{...} and the writes through b
SetBucket(key, b) ==
    [k \in DOMAIN buckets \cup {key} |-> IF k = key THEN b ELSE buckets[k]]

\* Allow calls made or under way
AllowCalls == Len(llog) + Cardinality({q \in Procs : lreqs[q].op = "allow"})

\* Allow: l.mu.Lock()
AllowLock(p) ==
    /\ lreqs[p].pc = "idle"
    /\ AllowCalls < MaxCalls
    /\ MayLock(p)
    /\ \E key \in LimiterKeys :
        lreqs' = [lreqs EXCEPT ![p] = [LIdle EXCEPT !.pc = "locked", !.op = "allow", !.key = key]]
    /\ mu' = [mu EXCEPT !.writer = p]
    /\ UNCHANGED <<now, faults, buckets, lcfg, llog>>
    /\ UNCHANGED <<authVars, adminSecret, stories, comments, votes, creqs, admitted, quota>>

\* Allow: now := time.Now(); b, ok := l.buckets[key]
AllowRead(p) ==
    /\ lreqs[p].pc = "locked"
    /\ lreqs[p].op = "allow"
    /\ lreqs' = [lreqs EXCEPT ![p] = [@ EXCEPT !.pc = "read", !.at = now,
                                                !.b = Lookup(lreqs[p].key)]]
    /\ UNCHANGED <<now, faults, buckets, mu, lcfg, llog>>
    /\ UNCHANGED <<authVars, adminSecret, stories, comments, votes, creqs, admitted, quota>>

\* Allow as a sliding window: every admitted call sets the reset time anew.
AllowWriteSliding(p) ==
    /\ lreqs[p].pc = "read"
    /\ lreqs[p].op = "allow"
    /\ LET r == lreqs[p]
           ok == Elapsed(r.b, r.at) \/ ~(r.b.count >= lcfg.limit)
       IN /\ buckets' =
                IF Elapsed(r.b, r.at)
                THEN SetBucket(r.key, [count |-> 1, resetTime |-> r.at + lcfg.window])
                ELSE IF r.b.count >= lcfg.limit THEN buckets
                ELSE SetBucket(r.key, [count |-> r.b.count + 1,
                                       resetTime |-> r.at + lcfg.window])
          /\ lreqs' = [lreqs EXCEPT ![p] = [r EXCEPT !.pc = "unlock",
                                                     !.result = IF ok THEN 1 ELSE 0]]
          /\ llog' = Append(llog, [key |-> r.key, at |-> r.at, ok |-> ok])
    /\ UNCHANGED <<now, faults, mu, lcfg>>
    /\ UNCHANGED <<authVars, adminSecret, stories, comments, votes, creqs, admitted, quota>>

\* Allow: the new bucket, the refusal, or b.count++
AllowWrite(p) ==
    /\ lreqs[p].pc = "read"
    /\ lreqs[p].op = "allow"
    /\ LET r == lreqs[p]
           ok == Elapsed(r.b, r.at) \/ ~(r.b.count >= lcfg.limit)
       IN /\ buckets' =
                IF Elapsed(r.b, r.at)
                THEN SetBucket(r.key, [count |-> 1, resetTime |-> r.at + lcfg.window])
                ELSE IF r.b.count >= lcfg.limit THEN buckets
                ELSE SetBucket(r.key, [r.b EXCEPT !.count = @ + 1])
          /\ lreqs' = [lreqs EXCEPT ![p] = [r EXCEPT !.pc = "unlock",
                                                     !.result = IF ok THEN 1 ELSE 0]]
          /\ llog' = Append(llog, [key |-> r.key, at |-> r.at, ok |-> ok])
    /\ UNCHANGED <<now, faults, mu, lcfg>>
    /\ UNCHANGED <<authVars, adminSecret, stories, comments, votes, creqs, admitted, quota>>

\* Remaining: l.mu.RLock()
RemainingLock(p) ==
    /\ lreqs[p].pc = "idle"
    /\ MayRLock(p)
    /\ \E key \in LimiterKeys :
        lreqs' = [lreqs EXCEPT ![p] = [LIdle EXCEPT !.pc = "locked", !.op = "remaining",
                                                   !.key = key]]
    /\ mu' = [mu EXCEPT !.readers = @ \cup {p}]
    /\ UNCHANGED <<now, faults, buckets, lcfg, llog>>
    /\ UNCHANGED <<authVars, adminSecret, stories, comments, votes, creqs, admitted, quota>>

\* Remaining without "if remaining < 0 { return 0 }".
RemainingReadUnclamped(p) ==
    /\ lreqs[p].pc = "locked"
    /\ lreqs[p].op = "remaining"
    /\ LET b == Lookup(lreqs[p].key)
           remaining == IF Elapsed(b, now) THEN lcfg.limit ELSE lcfg.limit - b.count
       IN lreqs' = [lreqs EXCEPT ![p] = [@ EXCEPT !.pc = "unlock", !.at = now, !.b = b,
                                                   !.result = remaining]]
    /\ UNCHANGED <<now, faults, buckets, mu, lcfg, llog>>
    /\ UNCHANGED <<authVars, adminSecret, stories, comments, votes, creqs, admitted, quota>>

\* Remaining: the lookup and the value returned
RemainingRead(p) ==
    /\ lreqs[p].pc = "locked"
    /\ lreqs[p].op = "remaining"
    /\ LET b == Lookup(lreqs[p].key)
           remaining == IF Elapsed(b, now) THEN lcfg.limit
                        ELSE IF lcfg.limit - b.count < 0 THEN 0
                        ELSE lcfg.limit - b.count
       IN lreqs' = [lreqs EXCEPT ![p] = [@ EXCEPT !.pc = "unlock", !.at = now, !.b = b,
                                                   !.result = remaining]]
    /\ UNCHANGED <<now, faults, buckets, mu, lcfg, llog>>
    /\ UNCHANGED <<authVars, adminSecret, stories, comments, votes, creqs, admitted, quota>>

\* RetryAfter: l.mu.RLock()
RetryAfterLock(p) ==
    /\ lreqs[p].pc = "idle"
    /\ MayRLock(p)
    /\ \E key \in LimiterKeys :
        lreqs' = [lreqs EXCEPT ![p] = [LIdle EXCEPT !.pc = "locked", !.op = "retryafter",
                                                   !.key = key]]
    /\ mu' = [mu EXCEPT !.readers = @ \cup {p}]
    /\ UNCHANGED <<now, faults, buckets, lcfg, llog>>
    /\ UNCHANGED <<authVars, adminSecret, stories, comments, votes, creqs, admitted, quota>>

\* RetryAfter: the lookup and the duration returned
RetryAfterRead(p) ==
    /\ lreqs[p].pc = "locked"
    /\ lreqs[p].op = "retryafter"
    /\ LET b == Lookup(lreqs[p].key)
           retryAfter == IF Elapsed(b, now) THEN 0 ELSE b.resetTime - now
       IN lreqs' = [lreqs EXCEPT ![p] = [@ EXCEPT !.pc = "unlock", !.at = now, !.b = b,
                                                   !.result = retryAfter]]
    /\ UNCHANGED <<now, faults, buckets, mu, lcfg, llog>>
    /\ UNCHANGED <<authVars, adminSecret, stories, comments, votes, creqs, admitted, quota>>

\* defer l.mu.Unlock() / defer l.mu.RUnlock(): the method returns
LimiterUnlock(p) ==
    /\ lreqs[p].pc = "unlock"
    /\ mu' = IF lreqs[p].op = "allow"
             THEN [mu EXCEPT !.writer = IF @ = p THEN 0 ELSE @]
             ELSE [mu EXCEPT !.readers = @ \ {p}]
    /\ lreqs' = [lreqs EXCEPT ![p] = LIdle]
    /\ UNCHANGED <<now, faults, buckets, lcfg, llog>>
    /\ UNCHANGED <<authVars, adminSecret, stories, comments, votes, creqs, admitted, quota>>

\* A Cleanup that also deletes the buckets whose window ends at this moment.
CleanupAtResetTime ==
    /\ mu = NoLock
    /\ \E k \in DOMAIN buckets : now >= buckets[k].resetTime
    /\ buckets' = [k \in {x \in DOMAIN buckets : ~(now >= buckets[x].resetTime)} |-> buckets[k]]
    /\ UNCHANGED <<now, faults, mu, lreqs, lcfg, llog>>
    /\ UNCHANGED <<authVars, adminSecret, stories, comments, votes, creqs, admitted, quota>>

\* MemoryLimiter.Cleanup, run by the goroutine StartCleanup starts: under the
\* write lock, every bucket whose window has elapsed is deleted
Cleanup ==
    /\ mu = NoLock
    /\ \E k \in DOMAIN buckets : now > buckets[k].resetTime
    /\ buckets' = [k \in {x \in DOMAIN buckets : ~(now > buckets[x].resetTime)} |-> buckets[k]]
    /\ UNCHANGED <<now, faults, mu, lreqs, lcfg, llog>>
    /\ UNCHANGED <<authVars, adminSecret, stories, comments, votes, creqs, admitted, quota>>

-----------------------------------------------------------------------------
(* Specifications *)

\* TTLs the service may be configured with: NewService takes any duration.
ChallengeTTLs == {-1, 0, TicksPerSecond}
TokenTTLs == {TicksPerSecond}

StoredToken(n, agentID, accountID, keyID, expiresAt) ==
    [id |-> RandomString("s", n), account_id |-> accountID, key_id |-> keyID,
     agent_id |-> agentID, token |-> RandomString("stok", n), expires_at |-> expiresAt]

\* The store right after construction.
EmptyStore ==
    /\ tokens = {}
    /\ accounts = {}
    /\ account_keys = {}
    /\ limit = [challenges |-> MaxChallenges, tokens |-> MaxTokens]

\* The store after an agent verified an unregistered key: one token bound to no
\* account, still valid.
StoreWithToken ==
    /\ tokens = {StoredToken(1, "a1", "", "unregistered:" \o Prefix16(KeyEd), TicksPerSecond)}
    /\ accounts = {}
    /\ account_keys = {}
    /\ limit = [challenges |-> MaxChallenges, tokens |-> MaxTokens]

StoredKey(n, accountID, alg, publicKey) ==
    [id |-> RandomString("key", n), account_id |-> accountID, algorithm |-> alg,
     public_key |-> publicKey, revoked_at |-> NullTime]

\* The store after an agent verified a key and created an account with it, did
\* so with a second key, added that key to the first account under another
\* algorithm, and verified with the first key: that token is valid for one more
\* second.
StoreWithTwoKeys ==
    /\ tokens = {StoredToken(1, "a1", "acc1", "key1", TicksPerSecond)}
    /\ accounts = {"acc1", "acc2"}
    /\ account_keys = {StoredKey(1, "acc1", AlgEd25519, KeyEd),
                       StoredKey(2, "acc2", AlgRSASHA256, KeyRSA),
                       StoredKey(3, "acc1", AlgRSAPSS, KeyRSA)}
    /\ limit = [challenges |-> MaxChallenges - 1, tokens |-> MaxTokens - 1]

\* The store after two agents verified unregistered keys: the token of the
\* first is valid for one more second, that of the second has just expired.
StoreWithExpiredToken ==
    /\ tokens = {StoredToken(1, "a1", "", "unregistered:" \o Prefix16(KeyEd), TicksPerSecond),
                 StoredToken(2, "a2", "", "unregistered:" \o Prefix16(KeyRSA), 0)}
    /\ accounts = {}
    /\ account_keys = {}
    /\ limit = [challenges |-> MaxChallenges, tokens |-> MaxTokens]

\* The limiter as constructed and no request being served.
NoContentRequest ==
    /\ buckets = [k \in {} |-> [count |-> 0, resetTime |-> 0]]
    /\ creqs = [p \in Procs |-> CIdle]
    /\ admitted = 0

\* The limiter right after NewMemoryLimiter, with no direct call made.
NoLimiterCall ==
    /\ mu = NoLock
    /\ lreqs = [p \in Procs |-> LIdle]
    /\ llog = <<>>

InitStore ==
    /\ now = 0
    /\ adminSecret = ""
    /\ stories = {}
    /\ comments = {}
    /\ votes = {}
    /\ quota = [stories |-> 0, comments |-> 0, votes |-> 0, admitted |-> 0, ips |-> {}]
    /\ NoContentRequest
    /\ NoLimiterCall
    /\ lcfg = [limit |-> 0, window |-> 0]
    /\ challengeTTL \in ChallengeTTLs
    /\ tokenTTL \in TokenTTLs
    /\ challenges = {}
    /\ nChallenges = 0
    /\ reqs = [p \in Procs |-> Idle]
    /\ issued = {}
    /\ \/ EmptyStore
       \/ StoreWithToken
       \/ StoreWithTwoKeys

\* The store never fails.
Init == InitStore /\ faults = 0

\* The store may fail up to MaxFaults times.
InitFaulty == InitStore /\ faults = MaxFaults

Next ==
    \/ Tick
    \/ \E p \in Procs : CreateChallenge(p)
    \/ \E p \in Procs : RequireAuth(p)
    \/ \E p \in Procs : VerifyChallenge(p)
    \/ \E p \in Procs : VerifyGetChallenge(p)
    \/ \E p \in Procs : VerifyCheckAndDelete(p)
    \/ \E p \in Procs : VerifyLookupKey(p)
    \/ \E p \in Procs : VerifyCreateToken(p)
    \/ \E p \in Procs : CreateAccountCheckKey(p)
    \/ \E p \in Procs : CreateAccountInsert(p)
    \/ \E p \in Procs : CreateAccountInsertKey(p)
    \/ \E p \in Procs : AddKeyGetAccount(p)
    \/ \E p \in Procs : AddKeyAuthorize(p)
    \/ \E p \in Procs : AddKeyCheckKey(p)
    \/ \E p \in Procs : AddKeyInsertKey(p)
    \/ \E p \in Procs : DeleteKeyAuthorize(p)
    \/ \E p \in Procs : DeleteKeyGetKey(p)
    \/ \E p \in Procs : DeleteKeyRevoke(p)
    \/ \E p \in Procs : Return(p)

Spec == Init /\ [][Next]_vars

SpecFaulty == InitFaulty /\ [][Next]_vars

\* The store with an expired token in it, and expired tokens being deleted
\* while requests are served.
InitTokens ==
    /\ now = 0
    /\ faults = 0
    /\ adminSecret = ""
    /\ stories = {}
    /\ comments = {}
    /\ votes = {}
    /\ quota = [stories |-> 0, comments |-> 0, votes |-> 0, admitted |-> 0, ips |-> {}]
    /\ NoContentRequest
    /\ NoLimiterCall
    /\ lcfg = [limit |-> 0, window |-> 0]
    /\ challengeTTL \in ChallengeTTLs
    /\ tokenTTL \in TokenTTLs
    /\ challenges = {}
    /\ nChallenges = 0
    /\ reqs = [p \in Procs |-> Idle]
    /\ issued = {}
    /\ StoreWithExpiredToken

NextTokens == Next \/ DeleteExpiredTokens

SpecTokens == InitTokens /\ [][NextTokens]_vars

StoredStory(n, url, agentID) ==
    [id |-> RandomString("s", n), url |-> url, score |-> 0, comment_count |-> 0,
     created_at |-> 0, hidden |-> FALSE, agent_id |-> agentID, agent_verified |-> TRUE,
     token_agent |-> agentID]

StoredComment(n, storyID, agentID) ==
    [id |-> RandomString("c", n), story_id |-> storyID, score |-> 0, hidden |-> FALSE,
     agent_id |-> agentID, agent_verified |-> TRUE, token_agent |-> agentID]

\* No content yet and no admin secret configured: clients submit stories.
NoStories ==
    /\ adminSecret = ""
    /\ stories = {}
    /\ comments = {}
    /\ votes = {}
    /\ quota = [stories |-> MaxStories, comments |-> 0, votes |-> 0,
                admitted |-> MaxAdmitted, ips |-> {"ip1"}]

\* No content yet: a client submits a story and clients vote.
SubmitAndVote ==
    /\ adminSecret = ""
    /\ stories = {}
    /\ comments = {}
    /\ votes = {}
    /\ quota = [stories |-> 1, comments |-> 0, votes |-> 1,
                admitted |-> MaxAdmitted - 1, ips |-> {"ip1"}]

\* One story, just submitted by the first agent, and an admin secret: clients
\* comment on the story.
OneStory ==
    /\ adminSecret = "s3cret"
    /\ stories = {StoredStory(1, "u1", "a1")}
    /\ comments = {}
    /\ votes = {}
    /\ quota = [stories |-> 0, comments |-> MaxComments, votes |-> 0,
                admitted |-> MaxAdmitted - 1, ips |-> {"ip1", "ip2"}]

\* That story with a comment of the second agent on it (the story's count is
\* 1): clients vote on both.
StoryWithComment ==
    /\ adminSecret = "s3cret"
    /\ stories = {[StoredStory(1, "u1", "a1") EXCEPT !.comment_count = 1]}
    /\ comments = {StoredComment(1, "s1", "a2")}
    /\ votes = {}
    /\ quota = [stories |-> 0, comments |-> 0, votes |-> MaxVotes,
                admitted |-> MaxAdmitted - 1, ips |-> {"ip1"}]

\* A vote the store holds: the value a voter cast on a target.
StoredVote(n, targetType, targetID, value, ip, agentID) ==
    [id |-> RandomString("v", n), target_type |-> targetType, target_id |-> targetID,
     value |-> value, ip_hash |-> HashIP(ip), agent_id |-> agentID, agent_verified |-> TRUE]

\* The story after the second agent upvoted it from another address: clients
\* vote on it again.
StoryWithVote ==
    /\ adminSecret = ""
    /\ stories = {[StoredStory(1, "u1", "a1") EXCEPT !.score = 1]}
    /\ comments = {}
    /\ votes = {StoredVote(1, "story", "s1", 1, "ip2", "a2")}
    /\ quota = [stories |-> 0, comments |-> 0, votes |-> MaxVotes + 1,
                admitted |-> MaxAdmitted - 1, ips |-> {"ip1"}]

\* The store after two agents verified, the first with a registered key: its
\* token is valid for one more second, the other's beyond the run.
InitContent ==
    /\ now = 0
    /\ challengeTTL = TicksPerSecond
    /\ tokenTTL = TicksPerSecond
    /\ challenges = {}
    /\ nChallenges = 0
    /\ tokens = {StoredToken(1, "a1", "acc1", "key1", TicksPerSecond),
                 StoredToken(2, "a2", "", "unregistered:" \o Prefix16(KeyRSA),
                             (MaxTime + 1) * TicksPerSecond)}
    /\ accounts = {"acc1"}
    /\ account_keys = {StoredKey(1, "acc1", AlgEd25519, KeyEd)}
    /\ limit = [challenges |-> 0, tokens |-> 0]
    /\ reqs = [p \in Procs |-> Idle]
    /\ issued = {}
    /\ faults = 0
    /\ NoContentRequest
    /\ NoLimiterCall
    /\ lcfg = [limit |-> 0, window |-> 0]
    /\ \/ NoStories
       \/ SubmitAndVote
       \/ OneStory
       \/ StoryWithComment
       \/ StoryWithVote

NextContent ==
    \/ ContentTick
    \/ \E p \in Procs : ContentRequireAuth(p)
    \/ \E p \in Procs : CheckRateLimit(p)
    \/ \E p \in Procs : CreateStoryFind(p)
    \/ \E p \in Procs : CreateStoryToken(p)
    \/ \E p \in Procs : CreateStoryInsert(p)
    \/ \E p \in Procs : CreateCommentGetStory(p)
    \/ \E p \in Procs : CreateCommentInsert(p)
    \/ \E p \in Procs : CreateCommentCount(p)
    \/ \E p \in Procs : CreateVoteGetTarget(p)
    \/ \E p \in Procs : CreateVoteGetVote(p)
    \/ \E p \in Procs : CreateVoteWrite(p)
    \/ \E p \in Procs : CreateVoteScore(p)
    \/ \E p \in Procs : HideGetTarget(p)
    \/ \E p \in Procs : HideApply(p)
    \/ \E p \in Procs : ContentReturn(p)

SpecContent == InitContent /\ [][NextContent]_vars

\* A fresh limiter whose callers pass one limit and one window.
InitLimiter ==
    /\ now = 0
    /\ faults = 0
    /\ challengeTTL = TicksPerSecond
    /\ tokenTTL = TicksPerSecond
    /\ challenges = {}
    /\ nChallenges = 0
    /\ tokens = {}
    /\ accounts = {}
    /\ account_keys = {}
    /\ limit = [challenges |-> 0, tokens |-> 0]
    /\ reqs = [p \in Procs |-> Idle]
    /\ issued = {}
    /\ adminSecret = ""
    /\ stories = {}
    /\ comments = {}
    /\ votes = {}
    /\ quota = [stories |-> 0, comments |-> 0, votes |-> 0, admitted |-> 0, ips |-> {}]
    /\ NoContentRequest
    /\ NoLimiterCall
    /\ lcfg \in [limit : Limits, window : Windows]

NextLimiter ==
    \/ Tick
    \/ Cleanup
    \/ \E p \in Procs : AllowLock(p)
    \/ \E p \in Procs : AllowRead(p)
    \/ \E p \in Procs : AllowWrite(p)
    \/ \E p \in Procs : RemainingLock(p)
    \/ \E p \in Procs : RemainingRead(p)
    \/ \E p \in Procs : RetryAfterLock(p)
    \/ \E p \in Procs : RetryAfterRead(p)
    \/ \E p \in Procs : LimiterUnlock(p)

SpecLimiter == InitLimiter /\ [][NextLimiter]_vars

-----------------------------------------------------------------------------
(* Properties *)

\* Challenge strings for which VerifyAndCreateToken has returned a token.
Consumed == {i.challenge : i \in issued}

\* The step in which request p presents its challenge string to GetChallenge.
GetStep(p) == reqs[p].chal = "" /\ reqs'[p].chal # ""

\* The step in which request p runs the checks that follow the lookup.
CheckStep(p) == reqs[p].pc = "check" /\ reqs'[p] # reqs[p]

VerifyOps == {"verify", "create_account", "add_key"}

\* The signature of request r is the correct one for the key it presents.
ValidSignature(r) ==
    /\ r.key # Nil
    /\ r.sig = Sign(r.alg, r.key, r.chal)
    /\ verifySignature(r.alg, r.key, r.chal, r.sig) = Result(TRUE, NoErr)

\* C1: of the verify_and_issue calls that present one challenge with matching
\* agent, algorithm and a valid signature, however they interleave, exactly one
\* returns a token: no challenge has two tokens issued for it.
C1_OneTokenPerChallenge ==
    \A c \in Consumed : Cardinality({i \in issued : i.challenge = c}) = 1

\* C2: once a verify_and_issue call on a challenge has returned a token, every
\* later call presenting that challenge string fails at the lookup with
\* ChallengeNotFound (or with the storage failure of its own lookup), whatever
\* else it carries.
C2_ConsumedIsNotFound ==
    [][\A p \in Procs :
          GetStep(p) /\ reqs'[p].chal \in Consumed
          => /\ reqs'[p].pc = "done"
             /\ reqs'[p].err \in {ErrChallengeNotFound, ErrStorage}]_vars

\* Request r has presented an agent or an algorithm other than the one the
\* challenge it looked up was created with.
Mismatched(r) ==
    /\ r.op \in VerifyOps
    /\ r.challenge # Nil
    /\ r.key # Nil
    /\ (r.challenge.agent_id # r.agent \/ r.challenge.algorithm # r.alg)

\* C3 as stated: a verify_and_issue call whose agent_id or algorithm differs
\* from the challenge's issues no token and fails with ChallengeNotFound.
C3_MismatchIsNotFound ==
    \A p \in Procs :
        Mismatched(reqs[p])
        => /\ reqs[p].pc = "done"
           /\ reqs[p].token = Nil
           /\ reqs[p].err = ErrChallengeNotFound

\* C3 amended: such a call issues no token and fails with ChallengeNotFound, or
\* with ChallengeExpired when the challenge has expired since it was looked up.
C3_MismatchFails ==
    \A p \in Procs :
        Mismatched(reqs[p])
        => /\ reqs[p].pc = "done"
           /\ reqs[p].token = Nil
           /\ reqs[p].err = IF now > reqs[p].challenge.expires_at
                            THEN ErrChallengeExpired
                            ELSE ErrChallengeNotFound

\* a mismatched call with the right key and a valid signature was refused
C3_Witness ==
    \E p \in Procs :
        /\ Mismatched(reqs[p])
        /\ ValidSignature(reqs[p])
        /\ reqs[p].err = ErrChallengeNotFound

\* C4: a verify_and_issue call never gets past a challenge whose expires_at
\* lies before the current time: its lookup of such a challenge ends the call
\* with ChallengeNotFound, and its check of a challenge that has expired since
\* the lookup ends it with ChallengeExpired, so that no token is issued,
\* whatever the TTL and the signature.
C4_ExpiredNeverVerifies ==
    [][\A p \in Procs :
          /\ ( /\ GetStep(p)
               /\ \E c \in challenges : c.challenge = reqs'[p].chal /\ c.expires_at < now )
             => /\ reqs'[p].pc = "done"
                /\ reqs'[p].err = ErrChallengeNotFound
          /\ ( CheckStep(p) /\ reqs[p].challenge.expires_at < now )
             => /\ reqs'[p].pc = "done"
                /\ reqs'[p].err = ErrChallengeExpired
                /\ issued' = issued]_vars

\* a call with the right key and a valid signature was refused as expired
C4_Witness ==
    \E p \in Procs :
        /\ reqs[p].pc = "done"
        /\ reqs[p].err = ErrChallengeExpired
        /\ ~Mismatched(reqs[p])
        /\ ValidSignature(reqs[p])

\* C5: validate returns the token issued under a string exactly while the
\* current time is before the expires_at the token was issued with.
C5_ValidUntilExpiresAt ==
    \A i \in issued : (ValidateToken(i.token) # Nil) <=> (now < i.expires_at)

\* C6: no two account keys that are not revoked hold the same
\* (algorithm, public_key) pair.
C6_ActiveKeysUnique ==
    \A k1, k2 \in account_keys :
        ( /\ ~k1.revoked_at.valid
          /\ ~k2.revoked_at.valid
          /\ k1.algorithm = k2.algorithm
          /\ k1.public_key = k2.public_key )
        => k1 = k2

\* the store rejected the insert of a pair that an active key holds
C6_Witness ==
    \E p \in Procs :
        /\ reqs[p].op = "create_account"
        /\ reqs[p].pc = "done"
        /\ reqs[p].account # ""
        /\ reqs[p].status = 500
        /\ GetAccountKeyByPublicKey(reqs[p].alg, reqs[p].key) # Nil

\* C7: a registration request whose verification succeeded and whose
\* (algorithm, public_key) pair another request has registered is answered
\* 409 Conflict.
C7_DuplicateIsConflict ==
    \A p \in Procs :
        ( /\ reqs[p].op \in {"create_account", "add_key"}
          /\ reqs[p].pc = "done"
          /\ reqs[p].token # Nil
          /\ reqs[p].status # 201
          /\ GetAccountKeyByPublicKey(reqs[p].alg, reqs[p].key) # Nil )
        => reqs[p].status = 409

\* C8: while no create_account request is being served, every account has an
\* account key.
C8_NoKeylessAccount ==
    (\A p \in Procs : reqs[p].op # "create_account")
    => \A a \in accounts : \E k \in account_keys : k.account_id = a

\* A revoke_key request r that targets the key of the valid token it carries.
RevokesOwnKey(r) ==
    /\ r.op = "revoke_key"
    /\ r.pc = "done"
    /\ r.keyid # ""
    /\ ValidateToken(r.bearer) # Nil
    /\ ValidateToken(r.bearer).key_id = r.keyid

\* C9 as stated: a revoke_key request that targets the key of its own token is
\* answered 400.
C9_OwnKeyIsInvalidRequest ==
    \A p \in Procs : RevokesOwnKey(reqs[p]) => reqs[p].status = 400

\* C9 amended: a revoke_key request that targets the key of its own token is
\* answered 400 when the account in its path is the token's account and 403
\* when it is another account, and no request reaches the revocation of, or
\* has revoked, the key of the token that authorized it.
C9_OwnKeyNeverRevoked ==
    \A p \in Procs :
        /\ RevokesOwnKey(reqs[p])
           => reqs[p].status = IF ValidateToken(reqs[p].bearer).account_id = reqs[p].acct
                               THEN 400 ELSE 403
        /\ ( /\ reqs[p].op = "revoke_key"
             /\ \/ reqs[p].pc = "dk_revoke"
                \/ reqs[p].pc = "done" /\ reqs[p].status = 200 )
           => reqs[p].keyid # reqs[p].auth.key_id

\* a request to revoke the key of its own token in its own account was refused
C9_Witness ==
    \E p \in Procs :
        /\ RevokesOwnKey(reqs[p])
        /\ reqs[p].status = 400
        /\ GetAccountKey(reqs[p].keyid) # Nil
        /\ ~GetAccountKey(reqs[p].keyid).revoked_at.valid

\* C10: an add_key or revoke_key request that did not pass the ownership check
\* is answered 401 when its token is missing, unknown or expired, and 403 when
\* the token's account_id differs from the account in its path.
C10_UnauthorizedIs401Or403 ==
    \A p \in Procs :
        ( /\ reqs[p].op \in {"add_key", "revoke_key"}
          /\ reqs[p].pc = "done"
          /\ reqs[p].auth = Nil )
        => /\ ValidateToken(reqs[p].bearer) = Nil => reqs[p].status = 401
           /\ ( /\ ValidateToken(reqs[p].bearer) # Nil
                /\ reqs[p].acct # ""
                /\ ValidateToken(reqs[p].bearer).account_id # reqs[p].acct )
              => reqs[p].status = 403

\* C11: once a key is revoked, the lookup by its (algorithm, public_key) pair
\* returns nothing, and every token issued with that key is still returned by
\* validate while the current time is before the expires_at it was issued with.
C11_RevokedKeyTokensStayValid ==
    \A k \in account_keys :
        k.revoked_at.valid
        => /\ GetAccountKeyByPublicKey(k.algorithm, k.public_key) = Nil
           /\ \A i \in issued, t \in tokens :
                 (t.token = i.token /\ t.key_id = k.id /\ now < i.expires_at)
                 => ValidateToken(i.token) # Nil

\* The public key of request r decodes to a key of the kind its algorithm uses.
WellFormedKey(r) ==
    /\ r.key # Nil
    /\ r.key.kind = IF r.alg = AlgEd25519 THEN "ed25519"
                    ELSE IF r.alg \in {AlgRSAPSS, AlgRSASHA256} THEN "rsa"
                    ELSE r.key.kind
    /\ r.key.kind # "none"

\* Request r has had its inputs checked against an unexpired challenge created
\* for its agent and algorithm, with a well-formed key and the signature that
\* key's owner computes over the challenge.
HonestVerification(r) ==
    /\ r.op \in VerifyOps
    /\ r.challenge # Nil
    /\ WellFormedKey(r)
    /\ isValidAlgorithm(r.alg)
    /\ r.challenge.agent_id = r.agent
    /\ r.challenge.algorithm = r.alg
    /\ r.sig = Sign(r.alg, r.key, r.chal)
    /\ r.pc \notin {"check", "lookup", "token"}

\* C12: for each of the four supported algorithms, a verify_and_issue call
\* with the agent and the algorithm of an unexpired challenge, a well-formed
\* public key and the correctly computed signature returns a token.
C12_HonestVerificationSucceeds ==
    \A p \in Procs :
        (HonestVerification(reqs[p]) /\ ~(now > reqs[p].challenge.expires_at))
        => reqs[p].token # Nil

\* The keys that are active for the pair request r presents.
ActiveKeysFor(r) ==
    {k \in account_keys :
        k.algorithm = r.alg /\ k.public_key = r.key /\ ~k.revoked_at.valid}

\* C13: the key verify_and_issue finds for the presented (algorithm,
\* public_key) is the key that is active for the pair at that moment, and none
\* when no key is active for it (never registered, or revoked); the token it
\* then stores and returns carries the account_id and the id of the key found,
\* and an empty account_id with an "unregistered" key id when none was found.
C13_TokenBoundToActiveKey ==
    [][\A p \in Procs :
          /\ (reqs[p].pc = "lookup" /\ reqs'[p].pc = "token")
             => IF ActiveKeysFor(reqs[p]) = {}
                THEN reqs'[p].accountKey = Nil
                ELSE reqs'[p].accountKey \in ActiveKeysFor(reqs[p])
          /\ (reqs[p].pc = "token" /\ reqs'[p].token # Nil)
             => /\ \E t \in tokens' \ tokens :
                      /\ t.token = reqs'[p].token.token
                      /\ t.account_id = reqs'[p].token.account_id
                      /\ t.key_id = reqs'[p].token.key_id
                /\ IF reqs[p].accountKey # Nil
                   THEN /\ reqs'[p].token.account_id = reqs[p].accountKey.account_id
                        /\ reqs'[p].token.key_id = reqs[p].accountKey.id
                   ELSE /\ reqs'[p].token.account_id = ""
                        /\ reqs'[p].token.key_id = "unregistered:" \o Prefix16(reqs[p].key)]_vars

\* a verification with a pair whose only key is revoked returned an unbound token
C13_Witness ==
    \E p \in Procs :
        /\ reqs[p].op = "verify"
        /\ reqs[p].status = 200
        /\ reqs[p].token # Nil
        /\ reqs[p].token.account_id = ""
        /\ \E k \in account_keys :
              k.algorithm = reqs[p].alg /\ k.public_key = reqs[p].key /\ k.revoked_at.valid

\* Request r is a registration that has inserted an account or an account key.
Registered(r) ==
    /\ r.op \in {"create_account", "add_key"}
    /\ (r.account # "" \/ r.key_id # "")

\* C14: every request that has created an account or an account key holds the
\* token of a verify_and_issue that succeeded for the pair it registers, with a
\* valid signature, against a challenge that was stored and unexpired when
\* looked up and that no other registration was verified against: of two
\* verifications of one challenge, one ran on a consumed challenge.
C14_RegistrationIsVerified ==
    \A p \in Procs :
        Registered(reqs[p])
        => /\ reqs[p].token # Nil
           /\ reqs[p].challenge # Nil
           /\ BoundTo(reqs[p].challenge, reqs[p].agent, reqs[p].alg)
           /\ ValidSignature(reqs[p])
           /\ \A q \in Procs \ {p} :
                 Registered(reqs[q]) => reqs[q].chal # reqs[p].chal

\* C15: a revoke_key request that passed the ownership check and whose key id
\* names no account key, or the key of another account, is answered 404.
C15_ForeignKeyIsNotFound ==
    \A p \in Procs :
        ( /\ reqs[p].op = "revoke_key"
          /\ reqs[p].pc = "done"
          /\ reqs[p].auth # Nil
          /\ \/ GetAccountKey(reqs[p].keyid) = Nil
             \/ GetAccountKey(reqs[p].keyid).account_id # reqs[p].acct )
        => reqs[p].status = 404

\* C16: the revoked_at of an account key that is revoked never changes again
\* and is never cleared, whatever request is served.
C16_RevokedAtSetOnce ==
    [][\A k \in account_keys :
          k.revoked_at.valid
          => \E k2 \in account_keys' : k2.id = k.id /\ k2.revoked_at = k.revoked_at]_vars

\* C17: the verify endpoint answers 500 only for a failure of the store; every
\* other failure is answered 400 (algorithm, public key, challenge not found or
\* expired) or 401 (signature).
C17_VerifyStatusByErrorKind ==
    \A p \in Procs :
        (reqs[p].op = "verify" /\ reqs[p].pc = "done")
        => reqs[p].status =
              CASE reqs[p].err = NoErr -> 200
                [] reqs[p].err = ErrStorage -> 500
                [] reqs[p].err = ErrInvalidSignature -> 401
                [] OTHER -> 400

\* C18: create_challenge with an unsupported algorithm fails with
\* InvalidAlgorithm and stores nothing; with a supported algorithm it stores
\* exactly one new challenge, for the given agent and algorithm, whose
\* expires_at is the current time plus the challenge TTL.
C18_ChallengePersisted ==
    [][\A p \in Procs :
          (reqs[p].pc = "idle" /\ reqs'[p].op = "challenge")
          => IF ~isValidAlgorithm(reqs'[p].alg)
             THEN /\ reqs'[p].err = ErrInvalidAlgorithm
                  /\ challenges' = challenges
             ELSE \E c \in challenges' \ challenges :
                     /\ challenges' = challenges \cup {c}
                     /\ c.agent_id = reqs'[p].agent
                     /\ c.algorithm = reqs'[p].alg
                     /\ c.expires_at = now + challengeTTL]_vars

\* A bearer string names a stored token that has not expired yet.
StoredAndUnexpired(tokenStr) ==
    \E t \in tokens : t.token = tokenStr /\ now < t.expires_at

\* Request p arrives at a protected content route in this step.
ContentArrives(p) ==
    /\ creqs[p].pc = "idle"
    /\ creqs'[p].pc # "idle"
    /\ creqs'[p].op \in ContentOps

\* Request p takes this step, past its arrival.
ContentActs(p) == creqs[p].pc \notin {"idle", "done"} /\ creqs'[p] # creqs[p]

\* Request p was let through RequireAuth with the token it carries.
CarriesToken(p) ==
    /\ creqs[p].op \in ContentOps
    /\ creqs[p].auth \in tokens
    /\ creqs[p].auth.token = creqs[p].bearer

\* A request carrying no stored and unexpired bearer token is answered 401
\* before its handler runs.
UnauthenticatedIsRefused ==
    \A p \in Procs :
        (ContentArrives(p) /\ ~StoredAndUnexpired(creqs'[p].bearer)) =>
            /\ creqs'[p].pc = "done"
            /\ creqs'[p].status = 401
            /\ creqs'[p].auth = Nil

\* The tables differ at most in the hidden flag of the one row the admin named.
OnlyHides(r) ==
    /\ votes' = votes
    /\ stories' = {IF r.target_type = "story" /\ s.id = r.target_id
                   THEN [s EXCEPT !.hidden = TRUE] ELSE s : s \in stories}
    /\ comments' = {IF r.target_type = "comment" /\ c.id = r.target_id
                    THEN [c EXCEPT !.hidden = TRUE] ELSE c : c \in comments}

RECURSIVE PassedInWindow(_, _, _)
PassedInWindow(action, ip, agentIDs) ==
    IF agentIDs = {} THEN 0
    ELSE LET a == CHOOSE x \in agentIDs : TRUE
             key == RateLimitKey(action, ip, a)
         IN (IF InWindow(key) THEN buckets[key].count ELSE 0)
            + PassedInWindow(action, ip, agentIDs \ {a})

\* C20: for each action and each client IP at most the configured limit of
\* requests pass the rate-limit check within one rate-limit window, whatever
\* X-Agent-Id header they carry.
C20_RateLimitPerIP ==
    \A action \in ContentOps, ip \in ClientIPs :
        PassedInWindow(action, ip, AgentHeaders) <= RateLimitOf(action)

\* A fixed-window counter replayed over the first n Allow calls: whether a
\* window of the key is open, the calls it has let through, its end, and
\* whether every call of the key so far returned what the counter returns
\* (true for the call that opens a window and while fewer than limit calls of
\* the window have passed, false otherwise).
RECURSIVE RefWindow(_, _)
RefWindow(key, n) ==
    IF n = 0 THEN [open |-> FALSE, count |-> 0, end |-> 0, good |-> TRUE]
    ELSE LET s == RefWindow(key, n - 1)
             e == llog[n]
         IN IF e.key # key THEN s
            ELSE IF ~s.open \/ e.at > s.end
            THEN [open |-> TRUE, count |-> 1, end |-> e.at + lcfg.window,
                  good |-> s.good /\ e.ok]
            ELSE IF s.count < lcfg.limit
            THEN [s EXCEPT !.count = @ + 1, !.good = @ /\ e.ok]
            ELSE [s EXCEPT !.good = @ /\ ~e.ok]

\* C21: for limit >= 1, Allow is a fixed-window counter per key: within one
\* window the first limit calls of a key return true and every further call
\* false, calls of another key do not count, and the first call after the
\* window has elapsed returns true and opens a new window with count 1.
C21_FixedWindowPerKey ==
    lcfg.limit >= 1 =>
        \A key \in LimiterKeys :
            LET s == RefWindow(key, Len(llog))
            IN /\ s.good
               /\ key \in DOMAIN buckets =>
                      /\ s.open
                      /\ buckets[key] = [count |-> s.count, resetTime |-> s.end]

\* A key was let through, then refused, then let through again in a new
\* window.
C21_Witness ==
    /\ lcfg.limit >= 1
    /\ \E i, j, k \in 1..Len(llog) :
          /\ i < j /\ j < k
          /\ llog[i].key = llog[j].key /\ llog[j].key = llog[k].key
          /\ llog[i].ok /\ ~llog[j].ok /\ llog[k].ok
          /\ llog[k].key \in DOMAIN buckets
          /\ buckets[llog[k].key].count = 1

\* Allow calls of a key decided within the window of its present bucket, and
\* those of them that returned true.
CallsInWindow(key) ==
    {i \in 1..Len(llog) : /\ llog[i].key = key
                           /\ llog[i].at >= buckets[key].resetTime - lcfg.window}
PassedCalls(key) == {i \in CallsInWindow(key) : llog[i].ok}

\* A Remaining call of the key that has read the bucket within its window.
RemainingInWindow(p, key) ==
    /\ lreqs[p].op = "remaining"
    /\ lreqs[p].pc = "unlock"
    /\ lreqs[p].key = key
    /\ lreqs[p].at <= buckets[key].resetTime

\* Of more than limit Allow calls of one key within one window exactly limit
\* returned true, the bucket counts no more than limit, and Remaining is 0.
ExactlyLimitPass(key) ==
    /\ buckets[key].count <= lcfg.limit
    /\ Cardinality(CallsInWindow(key)) > lcfg.limit =>
          /\ Cardinality(PassedCalls(key)) = lcfg.limit
          /\ \A p \in Procs : RemainingInWindow(p, key) => lreqs[p].result = 0

\* C22 as stated: when more than limit calls of Allow for the same key and
\* limit run concurrently within one window, exactly limit of them return
\* true under every interleaving, the count never exceeds limit, and
\* Remaining afterwards is 0.
C22_ExactlyLimitPass == \A key \in DOMAIN buckets : ExactlyLimitPass(key)

\* C22, amended: the same for limit >= 1.
C22_ExactlyLimitPassForPositiveLimit ==
    lcfg.limit >= 1 => \A key \in DOMAIN buckets : ExactlyLimitPass(key)

\* More Allow calls than the limit were decided for a key within one window,
\* and a Remaining call has read 0 within that window.
C22_Witness ==
    /\ lcfg.limit >= 1
    /\ \E key \in DOMAIN buckets, p \in Procs :
          /\ Cardinality(CallsInWindow(key)) > lcfg.limit
          /\ RemainingInWindow(p, key)
          /\ lreqs[p].result = 0

\* The story or comment a vote names.
TargetsOf(targetType, targetID) ==
    IF targetType = "story" THEN {x \in stories : x.id = targetID}
    ELSE {x \in comments : x.id = targetID}

\* C23: a CreateVote request authenticated with a token of agent A on a story
\* or comment submitted with a token of agent A is answered 403: it never
\* gets past the self-vote check, and no vote of A on that content is stored,
\* whatever other headers the two requests carried.
C23_NoVoteOnOwnContent ==
    /\ \A p \in Procs :
          (creqs[p].op = "vote" /\ creqs[p].pc \in {"v_get", "v_write", "v_score"}) =>
              \A x \in TargetsOf(creqs[p].target_type, creqs[p].target_id) :
                  x.token_agent # creqs[p].auth.agent_id
    /\ \A v \in votes :
          \A x \in TargetsOf(v.target_type, v.target_id) : x.token_agent # v.agent_id

\* C24: no two visible stories have the same URL with creation times less than
\* DuplicateWindow apart, also when submissions of one URL are processed
\* concurrently.
C24_NoDuplicateURLInWindow ==
    \A s1, s2 \in stories :
        (/\ s1.id # s2.id
         /\ ~s1.hidden /\ ~s2.hidden
         /\ s1.url # "" /\ s1.url = s2.url
         /\ s1.created_at <= s2.created_at) =>
            ~(s2.created_at - s1.created_at < DuplicateWindow)

\* Sum of the values of the vote records stored for a target.
RECURSIVE SumOfVotes(_)
SumOfVotes(vs) ==
    IF vs = {} THEN 0
    ELSE LET v == CHOOSE x \in vs : TRUE IN v.value + SumOfVotes(vs \ {v})

VotesOn(targetType, targetID) ==
    {v \in votes : v.target_type = targetType /\ v.target_id = targetID}

\* No CreateVote request is being served.
NoVoteInFlight == \A p \in Procs : creqs[p].op # "vote"

\* C25: after any sequence and interleaving of CreateVote requests on a story
\* or comment whose score started at 0, its score equals the sum of the values
\* of the vote records stored for it.
C25_ScoreIsSumOfVotes ==
    NoVoteInFlight =>
        /\ \A s \in stories : s.score = SumOfVotes(VotesOn("story", s.id))
        /\ \A c \in comments : c.score = SumOfVotes(VotesOn("comment", c.id))

\* Ids of the stories and comments that are hidden.
HiddenIDs == {x.id : x \in {y \in stories \cup comments : y.hidden}}

\* Request p arrives at the Hide endpoint in this step.
HideArrives(p) == creqs[p].pc = "idle" /\ creqs'[p].op = "hide"

\* The header of a request equals the configured, non-empty admin secret.
CarriesAdminSecret(r) == adminSecret # "" /\ r.secret = adminSecret

\* C26: the Hide endpoint hides a story or comment only for a request whose
\* X-Admin-Secret header equals the configured, non-empty admin secret; any
\* other request is answered 401 and changes nothing, and with an empty
\* configured secret no request is authorized.
C26_HideNeedsAdminSecret ==
    [][/\ \A p \in Procs :
             (HideArrives(p) /\ ~CarriesAdminSecret(creqs'[p])) =>
                 /\ creqs'[p].pc = "done"
                 /\ creqs'[p].status = 401
                 /\ <<stories, comments, votes>>' = <<stories, comments, votes>>
       /\ HiddenIDs' # HiddenIDs =>
             \E p \in Procs : /\ creqs[p].op = "hide"
                              /\ creqs'[p] # creqs[p]
                              /\ CarriesAdminSecret(creqs[p])
                              /\ HiddenIDs' = HiddenIDs \cup {creqs[p].target_id}]_vars

\* A request with a wrong secret has been refused after one with the
\* configured secret hid a story or comment.
C26_Witness ==
    /\ HiddenIDs # {}
    /\ \E p \in Procs : /\ creqs[p].op = "hide"
                         /\ creqs[p].pc = "done"
                         /\ creqs[p].status = 401
                         /\ creqs[p].secret \notin {"", adminSecret}

\* Rows a step adds to the three tables.
NewRows ==
    {x \in stories' : x.id \notin {y.id : y \in stories}}
    \cup {x \in comments' : x.id \notin {y.id : y \in comments}}
    \cup {x \in votes' : x.id \notin {y.id : y \in votes}}

\* C27: every story, comment or vote stored with agent_verified = true has the
\* agent_id of the token that authenticated the creating request; an
\* X-Agent-Id header never replaces it.
C27_VerifiedAgentIsTokenAgent ==
    [][\A p \in Procs :
          creqs'[p] # creqs[p] =>
              \A x \in NewRows :
                  x.agent_verified => x.agent_id = creqs[p].auth.agent_id]_vars

\* The documented minimum time between two posts of one agent, in ticks (60
\* seconds by default).
PostCooldown == 2

\* C28: two story submissions by the same agent that are less than
\* PostCooldown apart never both create a story.
C28_PostCooldown ==
    \A s1, s2 \in stories :
        (/\ s1.id # s2.id
         /\ s1.token_agent = s2.token_agent
         /\ s1.agent_id = s2.agent_id
         /\ s1.created_at <= s2.created_at) =>
            ~(s2.created_at - s1.created_at < PostCooldown)

\* C29: whenever verify_and_issue returns a token, the challenge it verified is
\* no longer in the store at the moment it returns, whatever the outcome of the
\* store's delete operation.
C29_IssuedMeansDeleted ==
    [][\A p \in Procs :
          (reqs[p].token = Nil /\ reqs'[p].token # Nil) =>
              \A c \in challenges' : c.challenge # reqs'[p].chal]_vars

\* A token GetToken still returns: expires_at > datetime('now').
Unexpired(t) == t.expires_at > DatetimeNow

\* C30: a token record is never modified, and never deleted while unexpired:
\* in every step each stored token either stays in the store exactly as it
\* was written (agent_id, account_id, key_id, expires_at), or it has expired
\* and no row with its token string is left; so the token of an unregistered
\* key stays unbound when that key is registered.
C30_TokenRecordsAreImmutable ==
    [][\A t \in tokens :
          \/ t \in tokens'
          \/ /\ ~Unexpired(t)
             /\ \A u \in tokens' : u.token # t.token]_vars

\* The expired token has been deleted, and the token issued for the
\* unregistered key is still stored unbound although the key now belongs to
\* an account.
C30_Witness ==
    /\ \E t \in tokens :
          /\ t = StoredToken(1, "a1", "", "unregistered:" \o Prefix16(KeyEd), TicksPerSecond)
          /\ \E k \in account_keys : k.public_key = KeyEd /\ ~k.revoked_at.valid
    /\ \A t \in tokens : t.token # RandomString("stok", 2)

\* The request of p has just written a vote row: UpdateVote or CreateVote.
VoteWritten(p) == creqs[p].pc = "v_write" /\ creqs'[p].pc = "v_score"

\* C31: votes cast on a target by voters that differ in IP hash or in
\* agent_id are separate records: a CreateVote request changes the value of a
\* vote record only if the record was created by the request's own
\* (ip_hash, agent_id) pair.
C31_VotersKeptApart ==
    [][\A p \in Procs : \A v \in votes :
          (VoteWritten(p) /\ v \notin votes') =>
              /\ v.ip_hash = HashIP(creqs[p].ip)
              /\ v.agent_id = creqs[p].agent]_vars

\* No query of the stories returns the story id.
StoryNotReturned(id) ==
    /\ GetStory(id) = Nil
    /\ \A s \in ListStories : s.id # id
    /\ \A url \in StoryURLs, since \in (0 - DuplicateWindow)..MaxTime :
          \A s \in FindStoryByURL(url, since) : s.id # id

\* No query of the comments returns the comment id.
CommentNotReturned(id) ==
    /\ GetComment(id) = Nil
    /\ \A storyID \in StoryIDs : \A c \in ListComments(storyID) : c.id # id

\* C32: once HideStory (HideComment) has been applied to a story (comment),
\* GetStory, ListStories and FindStoryByURL (GetComment, ListComments) never
\* return it again: a hidden row is returned by none of them, and every step
\* leaves a hidden row hidden.
C32_HiddenStaysHidden ==
    /\ [](/\ \A s \in stories : s.hidden => StoryNotReturned(s.id)
          /\ \A c \in comments : c.hidden => CommentNotReturned(c.id))
    /\ [][/\ \A s \in stories : s.hidden => \A t \in stories' : t.id = s.id => t.hidden
          /\ \A c \in comments : c.hidden => \A d \in comments' : d.id = c.id => d.hidden
          /\ \A s \in stories : \E t \in stories' : t.id = s.id
          /\ \A c \in comments : \E d \in comments' : d.id = c.id]_vars

\* A story was hidden and a later comment or vote on it was answered 404,
\* while a comment is hidden too.
C32_Witness ==
    /\ \E s \in stories :
          /\ s.hidden
          /\ \E p \in Procs : /\ creqs[p].op \in {"comment", "vote"}
                               /\ creqs[p].pc = "done"
                               /\ creqs[p].status = 404
                               /\ creqs[p].target_type = "story"
                               /\ creqs[p].target_id = s.id
    /\ \E c \in comments : c.hidden

\* The bucket of the key in a limiter on which Cleanup never runs, after the
\* first n Allow calls of the log, and whether every call of the key so far
\* returned what that limiter returns.
RECURSIVE WithoutCleanup(_, _)
WithoutCleanup(key, n) ==
    IF n = 0 THEN [b |-> Nil, same |-> TRUE]
    ELSE LET s == WithoutCleanup(key, n - 1)
             e == llog[n]
         IN IF e.key # key THEN s
            ELSE IF Elapsed(s.b, e.at)
            THEN [b |-> [count |-> 1, resetTime |-> e.at + lcfg.window],
                  same |-> s.same /\ e.ok]
            ELSE IF s.b.count >= lcfg.limit
            THEN [s EXCEPT !.same = @ /\ ~e.ok]
            ELSE [b |-> [s.b EXCEPT !.count = @ + 1], same |-> s.same /\ e.ok]

\* What the three methods see of a bucket at a time: nothing once its window
\* has elapsed.
Live(b, at) == IF Elapsed(b, at) THEN Nil ELSE b

\* What Remaining and RetryAfter return for a bucket read at a time.
RemainingOf(b, at) ==
    IF Elapsed(b, at) THEN lcfg.limit
    ELSE IF lcfg.limit - b.count < 0 THEN 0 ELSE lcfg.limit - b.count
RetryAfterOf(b, at) == IF Elapsed(b, at) THEN 0 ELSE b.resetTime - at

\* A call of Remaining or RetryAfter that has computed its result.
HasRead(p, op) == lreqs[p].op = op /\ lreqs[p].pc = "unlock"

\* A step of Cleanup: buckets change and no caller moves.
CleanupStep == buckets' # buckets /\ lreqs' = lreqs

\* C33: Cleanup deletes exactly the buckets whose window has elapsed and
\* leaves every other bucket unchanged, so Allow, Remaining and RetryAfter
\* return for every key what they return on a limiter on which Cleanup never
\* ran, also when Cleanup runs between concurrent Allow calls.
C33_CleanupIsUnobservable ==
    /\ [](\A key \in LimiterKeys :
            LET s == WithoutCleanup(key, Len(llog))
            IN /\ s.same
               /\ Live(Lookup(key), now) = Live(s.b, now)
               /\ \A p \in Procs :
                     lreqs[p].key = key =>
                        /\ HasRead(p, "remaining") =>
                               lreqs[p].result = RemainingOf(s.b, lreqs[p].at)
                        /\ HasRead(p, "retryafter") =>
                               lreqs[p].result = RetryAfterOf(s.b, lreqs[p].at))
    /\ [][CleanupStep =>
            /\ DOMAIN buckets' = {k \in DOMAIN buckets : ~(now > buckets[k].resetTime)}
            /\ \A k \in DOMAIN buckets' : buckets'[k] = buckets[k]]_vars

\* Cleanup has deleted the elapsed bucket of one key and kept the bucket of
\* the other, and a Remaining call that found no bucket has returned limit.
C33_Witness ==
    \E key \in LimiterKeys, other \in LimiterKeys, p \in Procs :
        /\ WithoutCleanup(key, Len(llog)).b # Nil
        /\ key \notin DOMAIN buckets
        /\ other \in DOMAIN buckets
        /\ HasRead(p, "remaining")
        /\ lreqs[p].key = key
        /\ lreqs[p].b = Nil
        /\ lreqs[p].result = lcfg.limit

\* Allow calls of the key that returned true in the window that ends at
\* resetTime.
AdmittedInWindow(key, resetTime) ==
    {i \in 1..Len(llog) : /\ llog[i].key = key
                           /\ llog[i].ok
                           /\ llog[i].at >= resetTime - lcfg.window}

Max(a, b) == IF a >= b THEN a ELSE b

\* What a Remaining call that has read returned: limit for no bucket or an
\* elapsed window, else what the admitted calls of the window leave of limit.
RemainingAsSpecified(p) ==
    LET r == lreqs[p]
    IN r.result = IF r.b = Nil \/ r.at > r.b.resetTime THEN lcfg.limit
                  ELSE Max(0, lcfg.limit
                                - Cardinality(AdmittedInWindow(r.key, r.b.resetTime)))

\* A step of a Remaining or RetryAfter call of p.
ReaderStep(p) ==
    /\ lreqs'[p] # lreqs[p]
    /\ \/ lreqs[p].op \in {"remaining", "retryafter"}
       \/ lreqs'[p].op \in {"remaining", "retryafter"}

\* Neither Remaining nor RetryAfter changes the limiter's state.
ReadersChangeNothing ==
    [][\A p \in Procs : ReaderStep(p) => buckets' = buckets]_vars

\* C34 as stated: Remaining returns limit when the key has no bucket or its
\* window has elapsed and max(0, limit - calls admitted in the current
\* window) otherwise; RetryAfter returns 0 in the first case and a duration
\* in (0, window] otherwise; neither changes the limiter's state.
C34_RemainingAndRetryAfter ==
    /\ [](\A p \in Procs :
            /\ HasRead(p, "remaining") => RemainingAsSpecified(p)
            /\ HasRead(p, "retryafter") =>
                   LET r == lreqs[p]
                   IN IF r.b = Nil \/ r.at > r.b.resetTime THEN r.result = 0
                      ELSE 0 < r.result /\ r.result <= lcfg.window)
    /\ ReadersChangeNothing

\* C34, amended: RetryAfter returns a duration in [0, window] in the second
\* case, 0 exactly when it is called at the reset time of the window.
C34_RetryAfterMayBeZeroInWindow ==
    /\ [](\A p \in Procs :
            /\ HasRead(p, "remaining") => RemainingAsSpecified(p)
            /\ HasRead(p, "retryafter") =>
                   LET r == lreqs[p]
                   IN IF r.b = Nil \/ r.at > r.b.resetTime THEN r.result = 0
                      ELSE /\ 0 <= r.result /\ r.result <= lcfg.window
                           /\ r.result = 0 <=> r.at = r.b.resetTime)
    /\ ReadersChangeNothing

\* One call of Remaining has returned 0 for a key whose window holds more
\* admitted calls than the limit allows for, while a call of RetryAfter made
\* at the reset time of a window has returned 0.
C34_Witness ==
    \E p, q \in Procs :
        /\ HasRead(p, "remaining")
        /\ lreqs[p].b # Nil
        /\ lreqs[p].at <= lreqs[p].b.resetTime
        /\ lreqs[p].result = 0
        /\ HasRead(q, "retryafter")
        /\ lreqs[q].b # Nil
        /\ lreqs[q].at = lreqs[q].b.resetTime
        /\ lreqs[q].result = 0

\* The checks of request p have passed: the signature is verified.
VerificationSucceeds(p) == CheckStep(p) /\ reqs'[p].pc = "lookup"

\* The checks of request p have failed with one of the three errors.
VerificationRefused(p) ==
    /\ CheckStep(p)
    /\ reqs'[p].pc = "done"
    /\ reqs'[p].err \in {ErrChallengeNotFound, ErrInvalidPublicKey, ErrInvalidSignature}

\* C35: verify_and_issue removes a challenge exactly when signature
\* verification succeeds: a step removes a challenge only as the successful
\* verification of that challenge, a successful verification leaves no
\* challenge with the string presented, a call that fails with
\* ChallengeNotFound (agent or algorithm mismatch), InvalidPublicKey or
\* InvalidSignature leaves the challenges as they are, and a create_account or
\* add_key request answered 409 has consumed its challenge.
C35_RemovedExactlyOnSuccess ==
    /\ [][/\ \A c \in challenges :
               c \notin challenges' =>
                   \E p \in Procs : /\ VerificationSucceeds(p)
                                     /\ reqs'[p].chal = c.challenge
          /\ \A p \in Procs :
               /\ VerificationSucceeds(p) =>
                      \A c \in challenges' : c.challenge # reqs'[p].chal
               /\ VerificationRefused(p) => challenges' = challenges]_vars
    /\ [](\A p \in Procs :
            (reqs[p].op \in {"create_account", "add_key"} /\ reqs[p].status = 409) =>
                \A c \in challenges : c.challenge # reqs[p].chal)

\* The keys of an account that are not revoked.
ActiveKeys(accountID) ==
    {k \in account_keys : k.account_id = accountID /\ ~k.revoked_at.valid}

\* C36: every account that was created successfully, that is with its first
\* key, keeps at least one active key under any sequence of add_key and
\* revoke_key requests made with valid tokens of the account.
C36_AccountKeepsAnActiveKey ==
    \A a \in accounts :
        (\E k \in account_keys : k.account_id = a) => ActiveKeys(a) # {}

\* Request p passes the ownership check of add_key or revoke_key.
PassesOwnership(p) ==
    \/ reqs[p].pc = "ak_auth" /\ reqs'[p].pc = "get"
    \/ reqs[p].pc = "dk_auth" /\ reqs'[p].pc = "dk_get"

\* No token with an empty account_id passes the ownership check, and a token
\* bound to an account is issued only for a key already registered to it.
UnboundTokensOwnNothing ==
    [][/\ \A p \in Procs :
            PassesOwnership(p) =>
                /\ reqs'[p].auth.account_id # ""
                /\ reqs'[p].auth.account_id = reqs'[p].acct
       /\ \A t \in tokens' \ tokens :
            t.account_id # "" =>
                \E k \in account_keys : k.id = t.key_id /\ k.account_id = t.account_id]_vars

\* C37 as stated: the token issued by the verification step inside
\* create_account has an empty account_id, no token with an empty account_id
\* passes the ownership check of add_key or revoke_key, and a token that
\* passes it comes from a verify_and_issue performed after the key was
\* registered.
C37_CreateAccountTokenIsUnbound ==
    /\ [](\A p \in Procs :
            (reqs[p].op = "create_account" /\ reqs[p].token # Nil) =>
                reqs[p].token.account_id = "")
    /\ UnboundTokensOwnNothing

\* C37, amended: the same for the token of a create_account request that
\* creates the account (is answered 201).
C37_NewAccountTokenIsUnbound ==
    /\ [](\A p \in Procs :
            (reqs[p].op = "create_account" /\ reqs[p].status = 201) =>
                reqs[p].token.account_id = "")
    /\ UnboundTokensOwnNothing

\* The one token issued in the run is that of a create_account request which
\* registered its key to a new account; the token is stored unbound, and an
\* add_key or revoke_key request for that account presenting it has been
\* answered 403.
C37_Witness ==
    \E q \in Procs, t \in tokens, k \in account_keys :
        /\ Cardinality(issued) = 1
        /\ \E i \in issued : i.token = t.token
        /\ t.account_id = ""
        /\ t.key_id = "unregistered:" \o Prefix16(k.public_key)
        /\ ~k.revoked_at.valid
        /\ reqs[q].op \in {"add_key", "revoke_key"}
        /\ reqs[q].bearer = t.token
        /\ reqs[q].acct = k.account_id
        /\ reqs[q].status = 403

\* C38: after a story has been hidden, no comment and no vote is recorded
\* against it and its score and comment_count no longer change, also when the
\* Hide request runs concurrently with CreateComment or CreateVote requests on
\* the story.
C38_HiddenStoryIsFrozen ==
    [][\A s \in stories :
          s.hidden =>
              /\ \A t \in stories' :
                    t.id = s.id => /\ t.score = s.score
                                   /\ t.comment_count = s.comment_count
              /\ \A c \in comments' :
                    c.story_id = s.id => \E d \in comments : d.id = c.id
              /\ \A v \in votes' \ votes :
                    ~(v.target_type = "story" /\ v.target_id = s.id)]_vars

\* The Allow call of p returns: its decision is made and written.
AllowDecides(p) ==
    /\ lreqs[p].op = "allow"
    /\ lreqs[p].pc = "read"
    /\ lreqs'[p].pc = "unlock"

\* The bucket of the key was opened by the admitted call i of the log: it
\* ends window after that call and counts the admitted calls from i on.
OpenedBy(key, i) ==
    /\ llog[i].key = key
    /\ llog[i].ok
    /\ buckets[key].resetTime = llog[i].at + lcfg.window
    /\ buckets[key].count =
           Cardinality({j \in i..Len(llog) : llog[j].key = key /\ llog[j].ok})

\* C39: a denied Allow call leaves the key's bucket unchanged, and an admitted
\* call inside a running window adds one to the count and never moves the
\* reset time: a window ends exactly window after the admitted call that
\* opened it, however many calls follow.
C39_WindowEndIsFixed ==
    /\ [][\A p \in Procs :
            AllowDecides(p) =>
                LET key == lreqs[p].key
                    running == key \in DOMAIN buckets
                                 /\ ~(lreqs[p].at > buckets[key].resetTime)
                IN /\ lreqs'[p].result = 0 => buckets' = buckets
                   /\ (lreqs'[p].result = 1 /\ running) =>
                         /\ buckets'[key].resetTime = buckets[key].resetTime
                         /\ buckets'[key].count = buckets[key].count + 1
                   /\ \A k \in DOMAIN buckets \ {key} :
                         k \in DOMAIN buckets' /\ buckets'[k] = buckets[k]]_vars
    /\ [](\A key \in DOMAIN buckets : \E i \in 1..Len(llog) : OpenedBy(key, i))

\* A window was opened by one call, a second call was admitted into it at a
\* later time and a third was denied, and the window still ends window after
\* the first.
C39_Witness ==
    \E i, j, k \in 1..Len(llog) :
        /\ i < j /\ j < k
        /\ llog[i].key = llog[j].key /\ llog[j].key = llog[k].key
        /\ llog[i].ok /\ llog[j].ok /\ ~llog[k].ok
        /\ llog[j].at > llog[i].at
        /\ llog[i].key \in DOMAIN buckets
        /\ OpenedBy(llog[i].key, i)
        /\ buckets[llog[i].key].count = 2

====
